---- MODULE Spec2Model ----
(***************************************************************************)
(* InsightAPI: the authentication service (register / login / refresh /    *)
(* logout / profile update), the post, comment and like routes with their  *)
(* services, the rate limiter and the global error handler, modelled as a  *)
(* state machine over the User, Post, Comment and Like collections.        *)
(*                                                                         *)
(* Every `await` on the store is a step of its own, so that requests       *)
(* interleave exactly where Node's event loop lets them.                   *)
(***************************************************************************)
EXTENDS Integers, Sequences, FiniteSets, TLC

(***************************************************************************)
(* Bounds of the model                                                     *)
(***************************************************************************)
MaxUsers == 2        \* ObjectIds the store ever hands out
MaxClock == 4        \* last reading of Date.now()
ClockStep == 2       \* readings between two looks at the clock in a session scenario
MaxBlacklist == 2    \* longest blacklistedRefreshTokens array explored
MaxInflight == 2     \* requests in flight at the same time
MaxTokens == 3       \* distinct refresh tokens handed to clients
MaxIncarnations == 1 \* registrations a session scenario sends
MaxLikers == 2       \* users who like and unlike
MaxLikeCalls == 2    \* calls of the like service in flight at once
MaxDocs == 2         \* posts and comments created
MAX_REQUESTS == 2    \* the limiter's max (100 in app.js), scaled down
WINDOW_MS == 2       \* the limiter's windowMs (60 * 1000 in app.js), in clock readings

\* config.jwt.refreshExpiry ('7d') and accessExpiry ('15m'), in clock readings
RefreshExpiry == 4
AccessExpiry == 2

Ids == 1..MaxUsers
Slots == 1..MaxInflight

(***************************************************************************)
(* Request inputs                                                          *)
(***************************************************************************)
\* Strings the validation layer lets through (Joi does not trim or lowercase).
EmailInputs == {"a@x.com", "A@x.com", "b@x.com"}
\* A plaintext is a string of one piece; a digest is a string of three.
PasswordInputs == {<<"Passw0rd1">>, <<"Passw0rd2">>}
Salts == {"salt1"}

\* UserSchema.username: trim
Trim(s) == CASE s = " alice" -> "alice" [] OTHER -> s
\* UserSchema.email: lowercase + trim
Lowercase(s) == CASE s = "A@x.com" -> "a@x.com" [] OTHER -> s

(***************************************************************************)
(* Password Hasher (bcryptjs through the User model)                       *)
(***************************************************************************)
\* bcrypt.hash(password, salt): "$2a$12$" ++ salt ++ hash, never the plaintext
BcryptHash(password, salt) == <<"$2a$12$", salt>> \o password

\* Faulty variant: the pre-save hook stores what it was given.
PreSaveNoHash(password, salt) == password

\* UserSchema.pre('save'): the password is new, so it is hashed
PreSave(password, salt) == BcryptHash(password, salt)

\* bcrypt.compare: re-hash the candidate with the digest's own salt;
\* a malformed digest compares false
BcryptCompare(candidate, digest) ==
    /\ Len(digest) = 3
    /\ digest[1] = "$2a$12$"
    /\ BcryptHash(candidate, digest[2]) = digest

\* UserSchema.methods.comparePassword
ComparePassword(candidate, digest) == BcryptCompare(candidate, digest)

(***************************************************************************)
(* Token Codec (jsonwebtoken with config.jwt)                              *)
(***************************************************************************)
\* config.jwt.secretAccess and config.jwt.secretRefresh, set to different values
SecretAccess == "JWT_SECRET_ACCESS"

\* Faulty variant: both environment variables hold the same secret.
SecretShared == "JWT_SECRET_ACCESS"

SecretRefresh == "JWT_SECRET_REFRESH"

\* config.jwt as the process read it from its environment: both secrets set, or
\* neither (process.env.JWT_SECRET_ACCESS / _REFRESH undefined outside production)
NoSecret == "unset"
Configured == [secretAccess |-> SecretAccess, secretRefresh |-> SecretRefresh]
Unconfigured == [secretAccess |-> NoSecret, secretRefresh |-> NoSecret]
Configs == {Configured, Unconfigured}

NoJti == <<>>
\* req.cookies.refreshToken when the cookie is absent
Undefined == [secret |-> "undefined", id |-> 0, jti |-> NoJti, username |-> "", exp |-> 0]
\* a string that is no JWT
Garbage == [secret |-> "garbage", id |-> 0, jti |-> NoJti, username |-> "", exp |-> 0]

\* jti = `${user._id}-${Date.now()}`
Jti(id, t) == <<id, t>>

SignAccess(id, username, t) ==
    [secret |-> SecretAccess, id |-> id, jti |-> NoJti, username |-> username,
     exp |-> t + AccessExpiry]

SignRefresh(id, jti, t) ==
    [secret |-> SecretRefresh, id |-> id, jti |-> jti, username |-> "",
     exp |-> t + RefreshExpiry]

\* generateAuthTokens(user) at clock reading t
\* Faulty variant: the refresh token is signed like the access token.
generateAuthTokensOneSecret(id, username, t) ==
    [accessToken |-> SignAccess(id, username, t),
     refreshToken |-> SignAccess(id, username, t)]

generateAuthTokens(id, username, t) ==
    [accessToken |-> SignAccess(id, username, t),
     refreshToken |-> SignRefresh(id, Jti(id, t), t)]

\* Faulty variant: the expiry is checked whatever the option says.
jwtVerifyAlwaysExpires(token, secret, ignoreExpiration, t) ==
    IF token.secret # secret THEN "JsonWebTokenError"
    ELSE IF t >= token.exp THEN "TokenExpiredError"
    ELSE "ok"

\* jwt.verify(token, secret, {ignoreExpiration}) at clock reading t:
\* "ok", or the name of the error it throws
jwtVerify(token, secret, ignoreExpiration, t) ==
    IF token.secret # secret THEN "JsonWebTokenError"
    ELSE IF ~ignoreExpiration /\ t >= token.exp THEN "TokenExpiredError"
    ELSE "ok"

(***************************************************************************)
(* Errors and the global error handler                                     *)
(***************************************************************************)
\* new AppError(message, statusCode, code): operational by construction
AppError(message, statusCode, code) ==
    [name |-> "Error", statusCode |-> statusCode, code |-> code,
     isOperational |-> TRUE, message |-> message]

\* the errors jsonwebtoken throws: no statusCode, no code, not operational
JwtError(name) ==
    [name |-> name, statusCode |-> 0, code |-> "", isOperational |-> FALSE,
     message |-> "jwt"]

\* jwt.sign without a secret: a plain Error
SignError ==
    [name |-> "Error", statusCode |-> 0, code |-> "", isOperational |-> FALSE,
     message |-> "secretOrPrivateKey must have a value"]

\* the driver's error when the store cannot be reached
StoreDown ==
    [name |-> "MongoNetworkError", statusCode |-> 0, code |-> "",
     isOperational |-> FALSE, message |-> "connection lost"]

\* the driver's E11000 when an insert or update hits a unique index
DuplicateKey ==
    [name |-> "MongoServerError", statusCode |-> 0, code |-> "11000",
     isOperational |-> FALSE, message |-> "E11000 duplicate key error"]

\* save() of a document that is no longer in the collection
DocumentNotFound ==
    [name |-> "DocumentNotFoundError", statusCode |-> 0, code |-> "",
     isOperational |-> FALSE, message |-> "No document found"]

NoError == [name |-> "none", statusCode |-> 0, code |-> "", isOperational |-> FALSE,
            message |-> ""]

\* handleDuplicateFieldsDB: err.errmsg.match(/(['"])(\?.)*?\1/)[0]. The pattern
\* only matches a quoted value made of '?x' pairs, so for the usernames and
\* emails of the model match() is null and indexing it throws a TypeError
\* inside the handler; Express then answers with its own 500.
handleDuplicateFieldsDB(err) ==
    [name |-> "TypeError", statusCode |-> 0, code |-> "", isOperational |-> FALSE,
     message |-> "Cannot read properties of null"]

\* errorHandler(err, req, res, next): the status, code and message it sends
errorHandler(err) ==
    LET error == IF err.code = "11000" THEN handleDuplicateFieldsDB(err)
                 ELSE IF err.name = "JsonWebTokenError"
                      THEN AppError("Invalid token. Please log in again.", 401,
                                    "AUTH_INVALID_TOKEN")
                      ELSE err
    IN  IF error.name = "TypeError"
        THEN [status |-> 500, code |-> "EXPRESS_DEFAULT_HANDLER", message |-> error.message]
        ELSE IF error.isOperational
        THEN [status |-> IF error.statusCode = 0 THEN 500 ELSE error.statusCode,
              code |-> IF error.code = "" THEN "GENERIC_ERROR" ELSE error.code,
              message |-> error.message]
        ELSE [status |-> 500, code |-> "INTERNAL_SERVER_ERROR",
              message |-> "An unexpected error occurred."]

(***************************************************************************)
(* State                                                                   *)
(***************************************************************************)
VARIABLES
    users,      \* the User collection: _id -> document
    nextId,     \* the next ObjectId the store hands out
    now,        \* Date.now()
    inflight,   \* per slot, the request suspended at an await (or idle)
    delivered,  \* tokens that reached a client in a Set-Cookie header
    resp,       \* the response sent by the step just taken (none otherwise)
    last,       \* history: per principal, the last request completed for it
    retired,    \* history: every jti ever appended to a blacklist
    survivors,  \* history: jtis delivered before a compromise wipe of their user
    regInput,   \* history: per principal, the email and password it registered with
    posts,      \* the Post collection: _id -> document
    likes,      \* the Like collection: a set of records
    likeFlight, \* per call of the like service, where it is suspended (or idle)
    comments,   \* the Comment collection: _id -> document
    nextDoc,    \* how many posts and comments the store has given an _id
    rateLimitStore, \* the limiter's Map: ip -> timestamps of its recent requests
    admitted    \* history: per ip, the timestamp of every request let through

limiterVars == <<rateLimitStore, admitted>>

likeVars == <<posts, likes, likeFlight, comments, nextDoc, limiterVars>>

vars == <<users, nextId, now, inflight, delivered, resp, last, retired, survivors,
          regInput, likeVars>>

Idle == [op |-> "idle"]

\* the resources a like can name: a stored post, and an id no post has
ExistingPost == "post1"
MissingPost == "post0"
\* the _id of the n-th post or comment created (ObjectIds are never reused)
NewIds == <<"doc1", "doc2", "doc3", "doc4">>
\* the stored post was written by a user who is no longer in the collection
FormerUser == [id |-> 0, username |-> "carol"]
Resources == {ExistingPost, MissingPost}
Likers == 1..MaxLikers
\* the client addresses (req.ip) the limiter sees
Ips == {"ip1", "ip2"}
LikeCalls == 1..MaxLikeCalls

\* A response: what the client receives (status, code, message, cookies and
\* the tokens they carry), and two labels of how the route got there: path, the
\* branch taken, thrown, the name of the error the route's code threw, and sent,
\* the secret that signed the cookie the request came with ("none" on routes
\* that read no cookie).
\* httpOnly holds the names of the cookies the response writes with
\* httpOnly: true, and user is the user object of the JSON body.
\* what a response does to each of the two cookies: "none" (no Set-Cookie for
\* it), "set" (to the token of the same name in the response), "loggedout" (the
\* placeholder of clearAuthCookies) or "removed" (res.clearCookie)
NoCookies == [accessToken |-> "none", refreshToken |-> "none"]
BothSet == [accessToken |-> "set", refreshToken |-> "set"]
BothCleared == [accessToken |-> "loggedout", refreshToken |-> "loggedout"]

\* a body without a user object
NoUserBody == [id |-> 0]

\* Faulty variant: the stored document goes out as it is.
UserBodyWhole(id, doc) == [id |-> id] @@ doc

\* user: { id: user._id, username: user.username, email: user.email }
UserBody(id, doc) == [id |-> id, username |-> doc.username, email |-> doc.email]

NoResponse ==
    [op |-> "none", path |-> "", status |-> 0, code |-> "", message |-> "",
     cookies |-> NoCookies, accessToken |-> Undefined, refreshToken |-> Undefined,
     thrown |-> "none", sent |-> "none",
     httpOnly |-> {}, user |-> NoUserBody]

NoEvent == [op |-> "none", token |-> Undefined]

Init ==
    /\ users = <<>>
    /\ nextId = 1
    /\ now = 0
    /\ inflight = [s \in Slots |-> Idle]
    /\ delivered = {}
    /\ resp = NoResponse
    /\ last = [p \in Ids |-> NoEvent]
    /\ retired = {}
    /\ survivors = {}
    /\ regInput = <<>>
    /\ posts = [r \in {ExistingPost} |->
                    [title |-> "t0", author |-> FormerUser,
                     commentCount |-> 0, likeCount |-> 0]]
    /\ likes = {}
    /\ likeFlight = [c \in LikeCalls |-> Idle]
    /\ comments = <<>>
    /\ nextDoc = 0
    /\ rateLimitStore = [ip \in Ips |-> <<>>]
    /\ admitted = [ip \in Ips |-> <<>>]

Present == DOMAIN users

\* Node runs one callback at a time: a handler step runs only once the response
\* of the previous one has been written
Quiet == resp = NoResponse

\* a request takes the first idle slot (the slots are interchangeable)
FreeSlot(s) == inflight[s] = Idle /\ \A q \in 1..(s - 1) : inflight[q] # Idle

\* the refresh tokens among the delivered tokens
RefreshDelivered == {t \in delivered : t.secret = SecretRefresh}

\* the cookie values a client can send: what it was given, or anything unsigned
CookieValues == delivered \cup {Undefined, Garbage}


Range(f) == {f[i] : i \in DOMAIN f}

(***************************************************************************)
(* Transport adapter: what a route sends                                   *)
(***************************************************************************)
\* setAuthCookies(res, accessToken, refreshToken): one res.cookie per token
setAuthCookies(r, tokens) ==
    LET first == [r EXCEPT !.cookies.accessToken = "set",
                           !.accessToken = tokens.accessToken,
                           !.httpOnly = @ \cup {"accessToken"}]
    IN  [first EXCEPT !.cookies.refreshToken = "set",
                      !.refreshToken = tokens.refreshToken,
                      !.httpOnly = @ \cup {"refreshToken"}]

\* Faulty variant: only the access cookie is overwritten.
clearAccessCookieOnly(r) ==
    [r EXCEPT !.cookies.accessToken = "loggedout", !.httpOnly = @ \cup {"accessToken"}]

\* clearAuthCookies(res): one res.cookie(name, 'loggedout') per cookie
clearAuthCookies(r) ==
    LET first == [r EXCEPT !.cookies.accessToken = "loggedout",
                           !.httpOnly = @ \cup {"accessToken"}]
    IN  [first EXCEPT !.cookies.refreshToken = "loggedout",
                      !.httpOnly = @ \cup {"refreshToken"}]

\* res.status(status).json(...) after setAuthCookies(res, accessToken, refreshToken)
Success(op, status, tokens) ==
    setAuthCookies(
        [op |-> op, path |-> "done", status |-> status, code |-> "success",
         message |-> "", cookies |-> NoCookies, accessToken |-> Undefined,
         refreshToken |-> Undefined, thrown |-> "none", sent |-> "none",
         httpOnly |-> {}, user |-> NoUserBody], tokens)

\* next(error): the error handler answers; no cookie is touched.
\* `path` names the branch of the handler that threw.
Failure(op, path, err) ==
    LET e == errorHandler(err)
    IN  [op |-> op, path |-> path, status |-> e.status, code |-> e.code,
         message |-> e.message, cookies |-> NoCookies, accessToken |-> Undefined,
         refreshToken |-> Undefined, thrown |-> err.name, sent |-> "none",
         httpOnly |-> {}, user |-> NoUserBody]

\* a response whose JSON body carries the user the service returned
WithUser(r, id, doc) == [r EXCEPT !.user = UserBody(id, doc)]

\* a response of a route that called clearAuthCookies(res) before answering
Cleared(r) == clearAuthCookies(r)

\* a response labelled with the cookie of the request it answers
Sent(token, r) == [r EXCEPT !.sent = token.secret]

(***************************************************************************)
(* The User collection                                                     *)
(***************************************************************************)
\* Faulty variant: the collection has no unique index.
NoUniqueIndex(docs, self, username, email) == TRUE

\* UserSchema: username {unique: true}, email {unique: true}. The store accepts
\* a write that gives document `self` these values only if no other document
\* holds either of them.
UniqueIndexAllows(docs, self, username, email) ==
    \A q \in DOMAIN docs \ {self} :
        docs[q].username # username /\ docs[q].email # email

\* User.findOne({ $or: [{ username }, { email }] }); the schema's setters run on
\* the query
FindByUsernameOrEmail(docs, username, email) ==
    {q \in DOMAIN docs : docs[q].username = Trim(username)
                           \/ docs[q].email = Lowercase(email)}

\* User.findOne({ email })
FindByEmail(docs, email) == {q \in DOMAIN docs : docs[q].email = Lowercase(email)}

\* User.create({ username, email, password }): the document that is inserted
\* the schema's default avatar and the public URL of an uploaded one
DefaultAvatar == "/public/defaults/avatar.png"
UploadedAvatar == "R2_PUBLIC_URL/avatars/file"

NewUser(username, email, password, salt) ==
    [username |-> Trim(username), email |-> Lowercase(email),
     password |-> PreSave(password, salt), blacklistedRefreshTokens |-> <<>>,
     avatar |-> DefaultAvatar]

\* Faulty variant: the old jti is not recorded.
PushNothing(list, jti) == list

\* Faulty variant: $addToSet, an entry already in the list is not appended again.
PushUnique(list, jti) == IF jti \in Range(list) THEN list ELSE Append(list, jti)

\* $push: { blacklistedRefreshTokens: jti } (also what save() sends after push())
Push(list, jti) == Append(list, jti)

\* Faulty variant: the cleanup keeps the list.
WipeNothing(list) == list

\* $set: { blacklistedRefreshTokens: [] }
Wipe(list) == <<>>

\* Faulty variant: every token counts as blacklisted.
IncludesAlways(list, jti) == TRUE

\* Faulty variant: no token counts as blacklisted.
IncludesNever(list, jti) == FALSE

\* user.blacklistedRefreshTokens.includes(oldJti)
Includes(list, jti) == jti \in Range(list)

\* the bound on the tokens and list lengths explored
WithinTokens(tokens) ==
    Cardinality(RefreshDelivered \cup {tokens.refreshToken}) <= MaxTokens

(***************************************************************************)
(* History bookkeeping                                                     *)
(***************************************************************************)
\* what is remembered of a completed request: a mint of a token whose jti was not
\* blacklisted ("mint"), a rotation of a token ("refresh"), a logout that
\* blacklisted a token ("logout"), or anything else ("other")
Event(op, token) == [op |-> op, token |-> token]
Other == Event("other", Undefined)

Note(p, e) == last' = [last EXCEPT ![p] = e]

\* what the history says of a jti when a refresh presents it: it was appended to
\* a blacklist before ("retired"), or it never was and its token was out when a
\* compromise wipe ran ("survivor"), or neither ("fresh")
Standing(jti) ==
    IF jti \in retired THEN "retired"
    ELSE IF jti \in survivors THEN "survivor" ELSE "fresh"

(***************************************************************************)
(* POST /register -> registerUser                                          *)
(***************************************************************************)
RegisterRequest(username, email, password) ==
    [op |-> "register", username |-> username, email |-> email, password |-> password]

UserExists == AppError("User with this username or email already exists.", 409,
                       "USER_EXISTS")

\* registerUser up to its first await: the friendly lookup
RegisterFind(s, username, email, password, up) ==
    LET req == RegisterRequest(username, email, password) IN
    /\ Quiet
    /\ FreeSlot(s)
    /\ nextId + Cardinality({q \in Slots : inflight[q].op = "register"}) <= MaxUsers
    /\ IF ~up
       THEN resp' = Failure("register", "find_down", StoreDown) /\ UNCHANGED inflight
       ELSE IF FindByUsernameOrEmail(users, username, email) # {}
       THEN resp' = Failure("register", "exists", UserExists) /\ UNCHANGED inflight
       ELSE /\ inflight' = [inflight EXCEPT ![s] = [op |-> "register", req |-> req]]
            /\ resp' = NoResponse
    /\ UNCHANGED <<users, nextId, now, delivered, last, retired, survivors, regInput, likeVars>>

\* registerUser from User.create on: insert under the unique indexes, mint, answer 201
RegisterCreateAt(s, salt, up, config) ==
    LET req == inflight[s].req
        doc == NewUser(req.username, req.email, req.password, salt)
        tokens == generateAuthTokens(nextId, doc.username, now)
    IN
    /\ Quiet
    /\ inflight[s].op = "register"
    /\ inflight' = [inflight EXCEPT ![s] = Idle]
    /\ IF ~up
       THEN /\ resp' = Failure("register", "create_down", StoreDown)
            /\ UNCHANGED <<users, nextId, last, regInput>>
       ELSE IF ~UniqueIndexAllows(users, nextId, doc.username, doc.email)
       THEN /\ resp' = Failure("register", "duplicate", DuplicateKey)
            /\ UNCHANGED <<users, nextId, last, regInput>>
       ELSE /\ users' = users @@ (nextId :> doc)
            /\ nextId' = nextId + 1
            /\ regInput' = regInput @@
                   (nextId :> [email |-> req.email, password |-> req.password])
            /\ IF config.secretAccess = NoSecret
               THEN /\ resp' = Failure("register", "sign", SignError)
                    /\ Note(nextId, Other)
               ELSE /\ WithinTokens(tokens)
                    /\ resp' = WithUser(Success("register", 201, tokens), nextId, doc)
                    /\ Note(nextId, Event("mint", tokens.refreshToken))
    /\ UNCHANGED <<now, delivered, retired, survivors, likeVars>>

\* the same on a process whose secrets are set
RegisterCreate(s, salt, up) == RegisterCreateAt(s, salt, up, Configured)

(***************************************************************************)
(* POST /login -> loginUser                                                *)
(***************************************************************************)
\* Faulty variant: the two failures are told apart.
LoginErrorTelling(found) ==
    IF found THEN AppError("Wrong password.", 401, "AUTH_FAILED")
    ELSE AppError("No account with this email.", 401, "AUTH_FAILED")

\* loginUser: the error thrown when !user || !(await user.comparePassword(password))
LoginError(found) == AppError("Invalid email or password.", 401, "AUTH_FAILED")

\* loginUser reads the store once and writes nothing, so it is one step
LoginAt(email, password, up, config) ==
    LET found == FindByEmail(users, email)
        p == CHOOSE q \in found : TRUE
        tokens == generateAuthTokens(p, users[p].username, now)
    IN
    /\ Quiet
    /\ IF ~up
       THEN resp' = Failure("login", "down", StoreDown) /\ UNCHANGED last
       ELSE IF found = {} \/ ~ComparePassword(password, users[p].password)
       THEN /\ resp' = Failure("login", IF found = {} THEN "no_user" ELSE "wrong_password",
                            LoginError(found # {}))
            /\ UNCHANGED last
       ELSE IF config.secretAccess = NoSecret
       THEN resp' = Failure("login", "sign", SignError) /\ UNCHANGED last
       ELSE /\ WithinTokens(tokens)
            /\ resp' = WithUser(Success("login", 200, tokens), p, users[p])
            /\ Note(p, IF Includes(users[p].blacklistedRefreshTokens,
                                    tokens.refreshToken.jti)
                        THEN Other ELSE Event("mint", tokens.refreshToken))
    /\ UNCHANGED <<users, nextId, now, inflight, delivered, retired, survivors, regInput, likeVars>>

\* the same on a process whose secrets are set
Login(email, password, up) == LoginAt(email, password, up, Configured)

(***************************************************************************)
(* GET /refresh -> refreshAuthTokens                                       *)
(***************************************************************************)
RefreshRequest(token) == [op |-> "refresh", token |-> token]

NoTokenProvided == AppError("No refresh token provided.", 401, "AUTH_NO_TOKEN")
\* Faulty variant: a plain Error, which the error handler answers with a 500.
InvalidPayloadPlain ==
    [name |-> "Error", statusCode |-> 0, code |-> "", isOperational |-> FALSE,
     message |-> "Invalid refresh token payload."]

InvalidPayload == AppError("Invalid refresh token payload.", 401, "AUTH_INVALID_TOKEN")
Compromised == AppError("Compromised refresh token used. All sessions logged out.",
                        401, "AUTH_COMPROMISED")

\* Faulty variant: the catch passes every error on as it is.
refreshCatchNothing(err) == err

\* the refresh route's catch: both JWT errors are wrapped into one AppError
refreshCatch(err) ==
    IF err.name \in {"JsonWebTokenError", "TokenExpiredError"}
    THEN AppError("Invalid or expired refresh token. Please log in.", 401,
                  "AUTH_REFRESH_FAILED")
    ELSE err

\* every failure of the refresh route: clearAuthCookies, then the error handler.
\* thrown keeps the name of the error as the route caught it, before the wrap.
RefreshFailure(path, err) ==
    Cleared([Failure("refresh", path, refreshCatch(err)) EXCEPT !.thrown = err.name])

\* the route and refreshAuthTokens up to the write they issue: verify, findById,
\* the blacklist check on the loaded document, and (rotation) the mint
RefreshLoadAt(s, token, up, config) ==
    LET req == RefreshRequest(token)
        verdict == jwtVerify(token, config.secretRefresh, FALSE, now)
        p == token.id
        tokens == generateAuthTokens(p, users[p].username, now)
        standing == Standing(token.jti)
    IN
    /\ Quiet
    /\ FreeSlot(s)
    /\ token \in CookieValues
    /\ IF token = Undefined
       THEN resp' = Sent(token, RefreshFailure("no_cookie", NoTokenProvided)) /\ UNCHANGED inflight
       ELSE IF verdict # "ok"
       THEN /\ resp' = Sent(token, RefreshFailure(
                          IF config.secretRefresh = NoSecret /\ token # Garbage
                          THEN "verify_key" ELSE "verify", JwtError(verdict)))
            /\ UNCHANGED inflight
       ELSE IF ~up
       THEN resp' = Sent(token, RefreshFailure("find_down", StoreDown)) /\ UNCHANGED inflight
       ELSE IF p \notin Present
       THEN resp' = Sent(token, RefreshFailure("no_user", InvalidPayload)) /\ UNCHANGED inflight
       ELSE IF Includes(users[p].blacklistedRefreshTokens, token.jti)
       THEN /\ inflight' = [inflight EXCEPT ![s] =
                   [op |-> "refresh", pc |-> "wipe", req |-> req,
                    standing |-> standing]]
            /\ resp' = NoResponse
       ELSE /\ WithinTokens(tokens)
            /\ inflight' = [inflight EXCEPT ![s] =
                   [op |-> "refresh", pc |-> "save", req |-> req, tokens |-> tokens,
                    standing |-> standing]]
            /\ resp' = NoResponse
    /\ UNCHANGED <<users, nextId, now, delivered, last, retired, survivors, regInput, likeVars>>

\* the same on a process whose secrets are set
RefreshLoad(s, token, up) == RefreshLoadAt(s, token, up, Configured)

\* Faulty variant: the cleanup reaches every document (updateMany).
WipeEvery(docs, id) ==
    [q \in DOMAIN docs |-> [docs[q] EXCEPT !.blacklistedRefreshTokens = Wipe(@)]]

\* User.findByIdAndUpdate(userId, {$set: {blacklistedRefreshTokens: []}}): the
\* document with that _id, if there is one
WipeById(docs, id) ==
    IF id \in DOMAIN docs
    THEN [docs EXCEPT ![id].blacklistedRefreshTokens = Wipe(@)]
    ELSE docs

\* the compromise branch's write lands: findByIdAndUpdate($set: []), then the throw
RefreshWipe(s, up) ==
    LET req == inflight[s].req
        p == req.token.id
    IN
    /\ Quiet
    /\ inflight[s].op = "refresh" /\ inflight[s].pc = "wipe"
    /\ inflight' = [inflight EXCEPT ![s] = Idle]
    /\ IF ~up
       THEN /\ resp' = Sent(req.token, RefreshFailure("wipe_down", StoreDown))
            /\ UNCHANGED <<users, survivors>>
       ELSE /\ users' = WipeById(users, p)
            /\ resp' = Sent(req.token, RefreshFailure("compromised", Compromised))
            /\ survivors' = survivors \cup {t.jti : t \in {d \in RefreshDelivered : d.id = p}}
    /\ Note(p, Other)
    /\ UNCHANGED <<nextId, now, delivered, retired, regInput, likeVars>>

\* the rotation's write lands: save() sends the $push of the old jti, then the
\* new pair is returned and set as cookies
RefreshSave(s, up) ==
    LET req == inflight[s].req
        p == req.token.id
    IN
    /\ Quiet
    /\ inflight[s].op = "refresh" /\ inflight[s].pc = "save"
    /\ inflight' = [inflight EXCEPT ![s] = Idle]
    /\ IF ~up
       THEN /\ resp' = Sent(req.token, RefreshFailure("save_down", StoreDown))
            /\ Note(p, Other)
            /\ UNCHANGED <<users, retired>>
       ELSE IF p \notin Present
       THEN /\ resp' = Sent(req.token, RefreshFailure("save_gone", DocumentNotFound))
            /\ Note(p, Other)
            /\ UNCHANGED <<users, retired>>
       ELSE /\ Len(users[p].blacklistedRefreshTokens) < MaxBlacklist
            /\ users' = [users EXCEPT ![p].blacklistedRefreshTokens =
                                          Push(@, req.token.jti)]
            /\ resp' = Sent(req.token, Success("refresh", 200, inflight[s].tokens))
            /\ retired' = retired \cup {req.token.jti}
            /\ Note(p, Event("refresh", req.token))
    /\ UNCHANGED <<nextId, now, delivered, survivors, regInput, likeVars>>

(***************************************************************************)
(* POST /logout -> logoutUser                                              *)
(***************************************************************************)
\* Faulty variant: no try/catch around the verification and the write.
logoutUserThrows(verdict, up) ==
    IF verdict # "ok" THEN JwtError(verdict) ELSE IF ~up THEN StoreDown ELSE NoError

\* logoutUser: try { verify; $push; return true } catch { return true }.
\* What it throws to the route: nothing.
logoutUser(verdict, up) == NoError

\* the route and logoutUser: verify ignoring expiry, one findByIdAndUpdate($push)
Logout(token, up) ==
    LET verdict == jwtVerify(token, SecretRefresh, TRUE, now)
        p == token.id
        pushes == verdict = "ok" /\ up /\ p \in Present
        err == logoutUser(verdict, up)
        path == IF verdict # "ok" THEN "verify" ELSE IF ~up THEN "down"
                ELSE IF p \in Present THEN "pushed" ELSE "no_user"
    IN
    /\ Quiet
    /\ token \in CookieValues
    /\ IF pushes
       THEN /\ Len(users[p].blacklistedRefreshTokens) < MaxBlacklist
            /\ users' = [users EXCEPT ![p].blacklistedRefreshTokens = Push(@, token.jti)]
            /\ retired' = retired \cup {token.jti}
            /\ Note(p, Event("logout", token))
       ELSE UNCHANGED <<users, retired, last>>
    /\ resp' = Sent(token,
                    IF err = NoError
               THEN Cleared(
                    [op |-> "logout", path |-> path, status |-> 200, code |-> "success",
                     message |-> "Logged out successfully.", cookies |-> NoCookies,
                     accessToken |-> Undefined, refreshToken |-> Undefined,
                     thrown |-> "none", sent |-> "none",
                     httpOnly |-> {}, user |-> NoUserBody])
               ELSE Cleared(Failure("logout", path, err)))
    /\ UNCHANGED <<nextId, now, inflight, delivered, survivors, regInput, likeVars>>

(***************************************************************************)
(* authenticate and PUT /profile -> updateUserProfile                      *)
(***************************************************************************)
\* Faulty variant: a token whose session was revoked is refused as well.
authenticateRevoked(token, t) ==
    IF token = Undefined
    THEN AppError("Authentication failed: No access token provided.", 401, "AUTH_REQUIRED")
    ELSE IF jwtVerify(token, SecretAccess, FALSE, t) = "TokenExpiredError"
    THEN AppError("Access token expired. Please refresh.", 401, "AUTH_TOKEN_EXPIRED")
    ELSE IF jwtVerify(token, SecretAccess, FALSE, t) # "ok"
    THEN AppError("Invalid or expired token.", 401, "AUTH_FAILED")
    ELSE IF /\ token.id \in Present
            /\ Jti(token.id, token.exp - AccessExpiry)
                  \in Range(users[token.id].blacklistedRefreshTokens)
    THEN AppError("Invalid or expired token.", 401, "AUTH_FAILED")
    ELSE NoError

\* Faulty variant: req.user is set from the payload whatever verify said.
authenticateLax(token, t) ==
    IF token = Undefined
    THEN AppError("Authentication failed: No access token provided.", 401, "AUTH_REQUIRED")
    ELSE NoError

\* authenticate(req, res, next): the error passed to next, or none
authenticate(token, t) ==
    LET verdict == jwtVerify(token, SecretAccess, FALSE, t) IN
    IF token = Undefined
    THEN AppError("Authentication failed: No access token provided.", 401, "AUTH_REQUIRED")
    ELSE IF verdict = "TokenExpiredError"
    THEN AppError("Access token expired. Please refresh.", 401, "AUTH_TOKEN_EXPIRED")
    ELSE IF verdict # "ok"
    THEN AppError("Invalid or expired token.", 401, "AUTH_FAILED")
    ELSE NoError

\* bodies the updateProfile schema accepts: a username, an email or both
\* ("" stands for a field that is absent)
ProfileBodies ==
    { [username |-> "bob",   email |-> ""],
      [username |-> "alice", email |-> ""],
      [username |-> "",      email |-> "A@x.com"],
      [username |-> "",      email |-> "b@x.com"],
      [username |-> " alice", email |-> "A@x.com"] }

ProfileRequest(token, body) == [op |-> "profile", token |-> token, body |-> body]

UserNotFound == AppError("User not found.", 404, "USER_NOT_FOUND")
UpdateFailed == AppError("Profile update failed unexpectedly.", 500, "UPDATE_FAILED")

\* { $set: updateBody } applied to a document, the schema's setters run on it
SetBody(doc, body) ==
    [doc EXCEPT !.username = IF body.username = "" THEN @ ELSE Trim(body.username),
                !.email = IF body.email = "" THEN @ ELSE Lowercase(body.email)]

\* authenticate, validate, and updateUserProfile up to findById(userId).lean()
ProfileFind(s, token, body, up) ==
    LET req == ProfileRequest(token, body)
        denied == authenticate(token, now)
    IN
    /\ Quiet
    /\ FreeSlot(s)
    /\ token \in CookieValues
    /\ body \in ProfileBodies
    /\ IF denied # NoError
       THEN /\ resp' = Sent(token,
                            IF token = Undefined
                       THEN Failure("profile", "denied", denied)
                       ELSE [Failure("profile", "denied", denied)
                                EXCEPT !.cookies.accessToken = "removed"])
            /\ UNCHANGED inflight
       ELSE IF ~up
       THEN resp' = Sent(token, Failure("profile", "find_down", StoreDown)) /\ UNCHANGED inflight
       ELSE IF token.id \notin Present
       THEN resp' = Sent(token, Failure("profile", "no_user", UserNotFound)) /\ UNCHANGED inflight
       ELSE /\ inflight' = [inflight EXCEPT ![s] = [op |-> "profile", req |-> req]]
            /\ resp' = NoResponse
    /\ UNCHANGED <<users, nextId, now, delivered, last, retired, survivors, regInput, likeVars>>

\* updateBody.username && updateBody.username !== updateBody.oldUsername: the
\* validated body never has an oldUsername, so any username counts as a change
isUsernameUpdate(body) == body.username # ""

\* res.status(200).json({ status: 'success', message: ..., user: updatedUser })
ProfileUpdated ==
    [op |-> "profile", path |-> "done", status |-> 200,
     code |-> "success", message |-> "Profile updated successfully.",
     cookies |-> NoCookies, accessToken |-> Undefined,
     refreshToken |-> Undefined, thrown |-> "none", sent |-> "none",
     httpOnly |-> {}, user |-> NoUserBody]

\* updateUserProfile from findByIdAndUpdate to the start of the bulk update (or
\* to the answer, when no username was sent): one $set under the unique indexes
ProfileUpdate(s, up) ==
    LET req == inflight[s].req
        p == req.token.id
        doc == SetBody(users[p], req.body)
    IN
    /\ Quiet
    /\ inflight[s].op = "profile"
    /\ IF ~up
       THEN /\ resp' = Sent(req.token, Failure("profile", "update_down", StoreDown))
            /\ inflight' = [inflight EXCEPT ![s] = Idle]
            /\ UNCHANGED <<users, regInput>>
       ELSE IF p \notin Present
       THEN /\ resp' = Sent(req.token, Failure("profile", "gone", UpdateFailed))
            /\ inflight' = [inflight EXCEPT ![s] = Idle]
            /\ UNCHANGED <<users, regInput>>
       ELSE IF ~UniqueIndexAllows(users, p, doc.username, doc.email)
       THEN /\ resp' = Sent(req.token, Failure("profile", "duplicate", DuplicateKey))
            /\ inflight' = [inflight EXCEPT ![s] = Idle]
            /\ UNCHANGED <<users, regInput>>
       ELSE /\ users' = [users EXCEPT ![p] = doc]
            /\ regInput' = [regInput EXCEPT ![p].email =
                               IF doc.email = users[p].email THEN @ ELSE ""]
            /\ IF isUsernameUpdate(req.body)
               THEN /\ inflight' = [inflight EXCEPT ![s] =
                           [op |-> "profile_bulk",
                            req |-> [token |-> req.token, username |-> doc.username]]]
                    /\ resp' = NoResponse
               ELSE /\ inflight' = [inflight EXCEPT ![s] = Idle]
                    /\ resp' = Sent(req.token, ProfileUpdated)
    /\ Note(p, Other)
    /\ UNCHANGED <<nextId, now, delivered, retired, survivors, likeVars>>

\* bulkUpdateAuthorUsername: Post.updateMany({'author.id': authorId},
\* {$set: {'author.username': newUsername}})
bulkUpdateAuthorUsername(docs, authorId, newUsername) ==
    [r \in DOMAIN docs |->
        IF docs[r].author.id = authorId
        THEN [docs[r] EXCEPT !.author.username = newUsername]
        ELSE docs[r]]

\* updateUserProfile after the user update, when the body named a username:
\* the bulk update of the user's posts with updatedUser.username, then the
\* route's answer
ProfileBulk(s, up) ==
    LET req == inflight[s].req IN
    /\ Quiet
    /\ inflight[s].op = "profile_bulk"
    /\ inflight' = [inflight EXCEPT ![s] = Idle]
    /\ IF ~up
       THEN /\ resp' = Sent(req.token, Failure("profile", "bulk_down", StoreDown))
            /\ UNCHANGED posts
       ELSE /\ posts' = bulkUpdateAuthorUsername(posts, req.token.id, req.username)
            /\ resp' = Sent(req.token, ProfileUpdated)
    /\ UNCHANGED <<users, nextId, now, delivered, last, retired, survivors, regInput,
                   likes, likeFlight, comments, nextDoc, limiterVars>>

(***************************************************************************)
(* authenticate, uploadAvatar and PUT /avatar -> updateUserAvatar          *)
(***************************************************************************)
AvatarRequest(token) == [op |-> "avatar", token |-> token]

NoFileProvided == AppError("No avatar file provided.", 400, "NO_FILE_PROVIDED")
AvatarUpdateFailed == AppError("Avatar update failed unexpectedly.", 500, "UPDATE_FAILED")
UploadError ==
    [name |-> "Error", statusCode |-> 0, code |-> "", isOperational |-> FALSE,
     message |-> "upload failed"]

\* Faulty variant: the update replaces the document by one holding the avatar.
SetAvatarReplacing(doc, url) ==
    [doc EXCEPT !.avatar = url, !.blacklistedRefreshTokens = <<>>]

\* findByIdAndUpdate(userId, { avatar: newAvatarUrl }): a $set of that one field
SetAvatar(doc, url) == [doc EXCEPT !.avatar = url]

\* authenticate, the file check, uploadFileToCloud, and updateUserAvatar up to
\* findById(userId)
AvatarFind(s, token, file, uploaded, up) ==
    LET req == AvatarRequest(token)
        denied == authenticate(token, now)
    IN
    /\ Quiet
    /\ FreeSlot(s)
    /\ token \in CookieValues
    /\ IF denied # NoError
       THEN /\ resp' = Sent(token,
                            IF token = Undefined
                       THEN Failure("avatar", "denied", denied)
                       ELSE [Failure("avatar", "denied", denied)
                                EXCEPT !.cookies.accessToken = "removed"])
            /\ UNCHANGED inflight
       ELSE IF ~file
       THEN resp' = Sent(token, Failure("avatar", "no_file", NoFileProvided)) /\ UNCHANGED inflight
       ELSE IF ~uploaded
       THEN resp' = Sent(token, Failure("avatar", "upload", UploadError)) /\ UNCHANGED inflight
       ELSE IF ~up
       THEN resp' = Sent(token, Failure("avatar", "find_down", StoreDown)) /\ UNCHANGED inflight
       ELSE IF token.id \notin Present
       THEN resp' = Sent(token, Failure("avatar", "no_user", UserNotFound)) /\ UNCHANGED inflight
       ELSE /\ inflight' = [inflight EXCEPT ![s] = req]
            /\ resp' = NoResponse
    /\ UNCHANGED <<users, nextId, now, delivered, last, retired, survivors, regInput, likeVars>>

\* updateUserAvatar from findByIdAndUpdate on, and the route's answer
AvatarUpdate(s, up) ==
    LET p == inflight[s].token.id
    IN
    /\ Quiet
    /\ inflight[s].op = "avatar"
    /\ inflight' = [inflight EXCEPT ![s] = Idle]
    /\ IF ~up
       THEN /\ resp' = Sent(inflight[s].token, Failure("avatar", "update_down", StoreDown))
            /\ UNCHANGED users
       ELSE IF p \notin Present
       THEN /\ resp' = Sent(inflight[s].token, Failure("avatar", "gone", AvatarUpdateFailed))
            /\ UNCHANGED users
       ELSE /\ users' = [users EXCEPT ![p] = SetAvatar(@, UploadedAvatar)]
            /\ resp' = Sent(inflight[s].token,
                            [op |-> "avatar", path |-> "done", status |-> 200,
                        code |-> "success", message |-> "Avatar updated.",
                        cookies |-> NoCookies, accessToken |-> Undefined,
                        refreshToken |-> Undefined, thrown |-> "none",
                        sent |-> "none",
                        httpOnly |-> {}, user |-> NoUserBody])
    /\ Note(p, Other)
    /\ UNCHANGED <<nextId, now, delivered, retired, survivors, regInput, likeVars>>

(***************************************************************************)
(* Environment                                                             *)
(***************************************************************************)
\* the test suites' User.deleteMany({}): every document goes, ObjectIds are not reused
DeleteMany ==
    /\ Quiet
    /\ Present # {}
    /\ users' = <<>>
    /\ regInput' = <<>>
    /\ last' = [p \in Ids |-> IF p \in Present
                              THEN Other
                              ELSE last[p]]
    /\ resp' = NoResponse
    /\ UNCHANGED <<nextId, now, inflight, delivered, retired, survivors, likeVars>>

\* Date.now() moves on
Tick(d) ==
    /\ Quiet
    /\ now + d <= MaxClock
    /\ now' = now + d
    /\ resp' = NoResponse
    /\ UNCHANGED <<users, nextId, inflight, delivered, last, retired, survivors, regInput, likeVars>>

\* the response leaves the server; the cookies it sets reach the client
Deliver ==
    /\ resp # NoResponse
    /\ delivered' = delivered
                       \cup (IF resp.cookies.accessToken = "set"
                             THEN {resp.accessToken} ELSE {})
                       \cup (IF resp.cookies.refreshToken = "set"
                             THEN {resp.refreshToken} ELSE {})
    /\ resp' = NoResponse
    /\ UNCHANGED <<users, nextId, now, inflight, last, retired, survivors, regInput, likeVars>>

\* the account used by the session scenarios
Alice == [username |-> "alice", email |-> "a@x.com", password |-> <<"Passw0rd1">>]

\* a second account
Bob == [username |-> "bob", email |-> "b@x.com", password |-> <<"Passw0rd2">>]

\* bodies the register schema accepts: two distinct accounts, the first one
\* again with padding and capitals, and bodies that clash on one field only
RegisterBodies ==
    { Alice,
      [username |-> " alice", email |-> "A@x.com", password |-> <<"Passw0rd2">>],
      [username |-> "bob",    email |-> "b@x.com", password |-> <<"Passw0rd2">>],
      [username |-> "alice",  email |-> "b@x.com", password |-> <<"Passw0rd1">>],
      [username |-> "bob",    email |-> "A@x.com", password |-> <<"Passw0rd1">>] }

\* registrations sent or answered so far in a session scenario
Registrations == (nextId - 1) + Cardinality({q \in Slots : inflight[q].op = "register"})

\* Sessions: one account, its tokens, rotation, logout, expiry and cleanup
Next ==
    \/ \E s \in Slots, up \in BOOLEAN :
          /\ Registrations < MaxIncarnations
          /\ RegisterFind(s, Alice.username, Alice.email, Alice.password, up)
    \/ \E s \in Slots, salt \in Salts, up \in BOOLEAN : RegisterCreate(s, salt, up)
    \/ \E up \in BOOLEAN : Login(Alice.email, Alice.password, up)
    \/ \E s \in Slots, t \in CookieValues, up \in BOOLEAN : RefreshLoad(s, t, up)
    \/ \E s \in Slots, up \in BOOLEAN : RefreshWipe(s, up)
    \/ \E s \in Slots, up \in BOOLEAN : RefreshSave(s, up)
    \/ \E t \in CookieValues, up \in BOOLEAN : Logout(t, up)
    \/ DeleteMany
    \/ Tick(ClockStep)
    \/ Deliver

Spec == Init /\ [][Next]_vars

\* Race: one account and its refresh requests at every reading of the clock
NextRace ==
    \/ \E s \in Slots, up \in BOOLEAN :
          /\ Registrations < MaxIncarnations
          /\ RegisterFind(s, Alice.username, Alice.email, Alice.password, up)
    \/ \E s \in Slots, salt \in Salts, up \in BOOLEAN : RegisterCreate(s, salt, up)
    \/ \E s \in Slots, t \in CookieValues, up \in BOOLEAN : RefreshLoad(s, t, up)
    \/ \E s \in Slots, up \in BOOLEAN : RefreshWipe(s, up)
    \/ \E s \in Slots, up \in BOOLEAN : RefreshSave(s, up)
    \/ Tick(1)
    \/ Deliver

SpecRace == Init /\ [][NextRace]_vars

(***************************************************************************)
(* Input validation (validate(register) in front of the register route)    *)
(***************************************************************************)
\* the characters of the strings a register body is made of
Characters(str) ==
    CASE str = "Passw0rd1" -> <<"P", "a", "s", "s", "w", "0", "r", "d", "1">>
      [] str = "Passw0rd2" -> <<"P", "a", "s", "s", "w", "0", "r", "d", "2">>
      [] str = "short"     -> <<"s", "h", "o", "r", "t">>
      [] str = "Sh0rt"     -> <<"S", "h", "0", "r", "t">>
      [] str = "password1" -> <<"p", "a", "s", "s", "w", "o", "r", "d", "1">>
      [] str = "PASSWORD1" -> <<"P", "A", "S", "S", "W", "O", "R", "D", "1">>
      [] str = "Password"  -> <<"P", "a", "s", "s", "w", "o", "r", "d">>
      [] str = "alice"     -> <<"a", "l", "i", "c", "e">>
      [] str = "bob"       -> <<"b", "o", "b">>
      [] str = "al"        -> <<"a", "l">>
      [] str = "a@x.com"   -> <<"a", "@", "x", ".", "c", "o", "m">>
      [] str = "b@x.com"   -> <<"b", "@", "x", ".", "c", "o", "m">>
      [] str = "a.x.com"   -> <<"a", ".", "x", ".", "c", "o", "m">>
      [] OTHER -> <<>>

LowerCase == {"a", "b", "c", "d", "e", "h", "i", "l", "m", "o", "p", "r", "s", "t", "w", "x"}
UpperCase == {"A", "D", "O", "P", "R", "S", "W"}
Digits == {"0", "1", "2"}

\* a body field that was not sent
Missing == <<>>

\* Faulty variant: the length rule without the pattern.
passwordLengthOnly(pw) ==
    /\ pw # Missing
    /\ Len(Characters(pw[1])) >= 8
    /\ Len(Characters(pw[1])) <= 128

\* password: string, required, min(8), max(128), one lowercase, one uppercase
\* and one digit
passwordSchema(pw) ==
    /\ pw # Missing
    /\ LET c == Characters(pw[1]) IN
          /\ Len(c) >= 8
          /\ Len(c) <= 128
          /\ \E i \in 1..Len(c) : c[i] \in LowerCase
          /\ \E i \in 1..Len(c) : c[i] \in UpperCase
          /\ \E i \in 1..Len(c) : c[i] \in Digits

\* username: string, required, min(3), max(30)
usernameSchema(u) == Len(Characters(u)) >= 3 /\ Len(Characters(u)) <= 30

\* email: string, email(), required: one "@" after a local part, and a domain
\* of at least two segments
emailSchema(e) ==
    LET c == Characters(e)
        at == {i \in 1..Len(c) : c[i] = "@"}
    IN /\ Cardinality(at) = 1
       /\ \A i \in at :
             /\ i > 1
             /\ \E j \in (i + 2)..(Len(c) - 1) : c[j] = "."

\* the register schema over a body
registerSchema(body) ==
    /\ usernameSchema(body.username)
    /\ emailSchema(body.email)
    /\ passwordSchema(body.password)

ValidationFailed == AppError("Validation error", 400, "INPUT_VALIDATION_FAILED")

\* POST /register as the router runs it: validate(register), then the route's
\* handler up to registerUser's first await
RegisterValidated(s, body, up) ==
    IF registerSchema(body)
    THEN RegisterFind(s, body.username, body.email, body.password, up)
    ELSE /\ Quiet
         /\ resp' = Failure("register", "invalid", ValidationFailed)
         /\ UNCHANGED <<users, nextId, now, inflight, delivered, last, retired,
                        survivors, regInput, likeVars>>

\* bodies sent to the register route: two that the schema accepts, and Alice's
\* with one field each that it does not
RegisterInputs ==
    { Alice,
      [username |-> "bob", email |-> "b@x.com", password |-> <<"Passw0rd2">>],
      [Alice EXCEPT !.password = <<"short">>],
      [Alice EXCEPT !.password = <<"Sh0rt">>],
      [Alice EXCEPT !.password = <<"password1">>],
      [Alice EXCEPT !.password = <<"PASSWORD1">>],
      [Alice EXCEPT !.password = <<"Password">>],
      [Alice EXCEPT !.password = Missing],
      [Alice EXCEPT !.username = "al"],
      [Alice EXCEPT !.email = "a.x.com"] }

\* Validation: registrations of any body, and logins with what was registered
NextValidation ==
    \/ \E s \in Slots, body \in RegisterInputs, up \in BOOLEAN :
          RegisterValidated(s, body, up)
    \/ \E s \in Slots, salt \in Salts, up \in BOOLEAN : RegisterCreate(s, salt, up)
    \/ \E e \in {"a@x.com", "b@x.com"}, pw \in PasswordInputs, up \in BOOLEAN :
          Login(e, pw, up)
    \/ Deliver

SpecValidation == Init /\ [][NextValidation]_vars

\* Deployment: one account, registered as often as the client likes, and its
\* sessions, served by processes that may have been started without their
\* secrets, over a store that may be unreachable
NextDeployment ==
    \/ \E s \in Slots, up \in BOOLEAN :
          RegisterFind(s, Alice.username, Alice.email, Alice.password, up)
    \/ \E s \in Slots, salt \in Salts, up \in BOOLEAN, config \in Configs :
          RegisterCreateAt(s, salt, up, config)
    \/ \E up \in BOOLEAN, config \in Configs :
          LoginAt(Alice.email, Alice.password, up, config)
    \/ \E s \in Slots, t \in CookieValues, up \in BOOLEAN, config \in Configs :
          RefreshLoadAt(s, t, up, config)
    \/ \E s \in Slots, up \in BOOLEAN : RefreshWipe(s, up)
    \/ \E s \in Slots, up \in BOOLEAN : RefreshSave(s, up)
    \/ now < ClockStep /\ Tick(ClockStep)
    \/ Deliver

SpecDeployment == Init /\ [][NextDeployment]_vars

\* the refresh token of the latest successful answer: of one principal's tokens
\* the one that expires last (Undefined before the first mint)
Latest ==
    IF RefreshDelivered = {} THEN Undefined
    ELSE CHOOSE t \in RefreshDelivered : \A o \in RefreshDelivered : o.exp <= t.exp

\* Lineage: a client that behaves: one registration, then refreshes one at a
\* time, each with the refresh token of the latest successful answer, at any
\* clock reading, over a store that may be unreachable
NextLineage ==
    \/ \E s \in Slots, up \in BOOLEAN :
          /\ Registrations < MaxIncarnations
          /\ RegisterFind(s, Alice.username, Alice.email, Alice.password, up)
    \/ \E s \in Slots, salt \in Salts, up \in BOOLEAN : RegisterCreate(s, salt, up)
    \/ \E s \in Slots, up \in BOOLEAN :
          /\ Latest # Undefined
          /\ \A q \in Slots : inflight[q] = Idle
          /\ RefreshLoad(s, Latest, up)
    \/ \E s \in Slots, up \in BOOLEAN : RefreshWipe(s, up)
    \/ \E s \in Slots, up \in BOOLEAN : RefreshSave(s, up)
    \/ Tick(1)
    \/ Deliver

SpecLineage == Init /\ [][NextLineage]_vars

(***************************************************************************)
(* Likes (like.service.js over the Like model and updateCounter)           *)
(***************************************************************************)
\* what the like, post and comment routes leave alone in the auth state
sessionVars == <<users, nextId, now, delivered, last, retired, survivors, regInput,
                 limiterVars>>

\* res.status(status).json({ status: 'success', ... }) of a route that sets no
\* cookie
Json(op, path, status) ==
    [op |-> op, path |-> path, status |-> status, code |-> "success",
     message |-> "", cookies |-> NoCookies, accessToken |-> Undefined,
     refreshToken |-> Undefined, thrown |-> "none", sent |-> "none",
     httpOnly |-> {}, user |-> NoUserBody]

\* the Like records of a user on a resource (the unique index allows one)
LikesOf(userId, resourceId) ==
    {l \in likes : l.userId = userId /\ l.resourceId = resourceId}

\* Faulty variant: the update writes back the value it read.
IncLost(count, v) == count

\* {$inc: {[counterField]: incrementValue}}, applied by the store in one step
Inc(count, v) == count + v

\* updateCounter: findByIdAndUpdate(resourceId, {$inc}), null when no document
\* has the id
updateCounter(docs, resourceId, counterField, v) ==
    IF resourceId \notin DOMAIN docs THEN docs
    ELSE IF counterField = "likeCount"
    THEN [docs EXCEPT ![resourceId].likeCount = Inc(@, v)]
    ELSE [docs EXCEPT ![resourceId].commentCount = Inc(@, v)]

\* the AppError updateCounter throws when findByIdAndUpdate returned null
PostNotFound == AppError("Post with ID not found.", 404, "POST_NOT_FOUND")

\* PostService.updateLikeCount(resourceId, v): the services at hand do not
\* define it; taken to be updateCounter('Post', resourceId, 'likeCount', v)
updateLikeCount(docs, resourceId, v) == updateCounter(docs, resourceId, "likeCount", v)

\* POST /api/v1/likes -> likeResource up to its first await:
\* Like.findOne({userId, resourceId, onModel})
LikeFind(c, userId, resourceId) ==
    /\ Quiet
    /\ likeFlight[c] = Idle
    /\ IF LikesOf(userId, resourceId) # {}
       THEN /\ resp' = Failure("like", "already",
                               AppError("Resource already liked by this user.", 409,
                                        "ALREADY_LIKED"))
            /\ UNCHANGED likeFlight
       ELSE /\ likeFlight' = [likeFlight EXCEPT ![c] =
                   [op |-> "like", pc |-> "create", userId |-> userId,
                    resourceId |-> resourceId]]
            /\ resp' = NoResponse
    /\ UNCHANGED <<sessionVars, inflight, posts, likes, comments, nextDoc>>

\* Like.create under the unique index {userId, resourceId, onModel}: a second
\* record for the pair is refused (E11000) and the call ends before any count
LikeCreate(c) ==
    LET call == likeFlight[c] IN
    /\ Quiet
    /\ call.op = "like" /\ call.pc = "create"
    /\ IF LikesOf(call.userId, call.resourceId) # {}
       THEN /\ likeFlight' = [likeFlight EXCEPT ![c] = Idle]
            /\ resp' = Failure("like", "duplicate", DuplicateKey)
            /\ UNCHANGED likes
       ELSE /\ likes' = likes \cup {[userId |-> call.userId,
                                     resourceId |-> call.resourceId, by |-> c]}
            /\ likeFlight' = [likeFlight EXCEPT ![c].pc = "count"]
            /\ resp' = NoResponse
    /\ UNCHANGED <<sessionVars, inflight, posts, comments, nextDoc>>

\* updateLikeCount(resourceId, 1), then the route's 201; when the resource is
\* not found the call goes on to the catch with the error thrown
LikeCount(c) ==
    LET call == likeFlight[c] IN
    /\ Quiet
    /\ call.op = "like" /\ call.pc = "count"
    /\ posts' = updateLikeCount(posts, call.resourceId, 1)
    /\ IF call.resourceId \in DOMAIN posts
       THEN /\ likeFlight' = [likeFlight EXCEPT ![c] = Idle]
            /\ resp' = Json("like", "done", 201)
       ELSE /\ likeFlight' = [likeFlight EXCEPT ![c] = [call EXCEPT !.pc = "cleanup"]]
            /\ resp' = NoResponse
    /\ UNCHANGED <<sessionVars, inflight, likes, comments, nextDoc>>

\* Faulty variant: the catch deletes nothing.
KeepLike(records, call, c) == records

\* Like.findByIdAndDelete(like._id): the record this call created, if it is
\* still stored
DeleteOwnLike(records, call, c) ==
    records \ {l \in records : /\ l.userId = call.userId
                                /\ l.resourceId = call.resourceId
                                /\ l.by = c}

\* the catch of likeResource: Like.findByIdAndDelete(like._id), then the
\* rethrow of the error of the count update
LikeCleanup(c) ==
    LET call == likeFlight[c] IN
    /\ Quiet
    /\ call.op = "like" /\ call.pc = "cleanup"
    /\ likes' = DeleteOwnLike(likes, call, c)
    /\ likeFlight' = [likeFlight EXCEPT ![c] = Idle]
    /\ resp' = Failure("like", "cleanup", PostNotFound)
    /\ UNCHANGED <<sessionVars, inflight, posts, comments, nextDoc>>

\* DELETE /api/v1/likes -> unlikeResource up to its first await:
\* Like.findOneAndDelete({userId, resourceId, onModel}); nothing found ends the
\* call, and the route answers 204 either way
UnlikeDelete(c, userId, resourceId) ==
    /\ Quiet
    /\ likeFlight[c] = Idle
    /\ likes' = likes \ LikesOf(userId, resourceId)
    /\ IF LikesOf(userId, resourceId) = {}
       THEN resp' = Json("unlike", "none", 204) /\ UNCHANGED likeFlight
       ELSE /\ likeFlight' = [likeFlight EXCEPT ![c] =
                   [op |-> "unlike", pc |-> "count", userId |-> userId,
                    resourceId |-> resourceId]]
            /\ resp' = NoResponse
    /\ UNCHANGED <<sessionVars, inflight, posts, comments, nextDoc>>

\* updateLikeCount(resourceId, -1); a failure is logged and not rethrown
UnlikeCount(c) ==
    LET call == likeFlight[c] IN
    /\ Quiet
    /\ call.op = "unlike" /\ call.pc = "count"
    /\ posts' = updateLikeCount(posts, call.resourceId, -1)
    /\ likeFlight' = [likeFlight EXCEPT ![c] = Idle]
    /\ resp' = Json("unlike", "done", 204)
    /\ UNCHANGED <<sessionVars, inflight, likes, comments, nextDoc>>

\* Likes: users liking and unliking a stored post and a missing one, their
\* calls interleaved at every await
NextLikes ==
    \/ \E c \in LikeCalls, u \in Likers, r \in Resources : LikeFind(c, u, r)
    \/ \E c \in LikeCalls : LikeCreate(c)
    \/ \E c \in LikeCalls : LikeCount(c)
    \/ \E c \in LikeCalls : LikeCleanup(c)
    \/ \E c \in LikeCalls, u \in Likers, r \in Resources : UnlikeDelete(c, u, r)
    \/ \E c \in LikeCalls : UnlikeCount(c)
    \/ Deliver

SpecLikes == Init /\ [][NextLikes]_vars

(***************************************************************************)
(* Rate limiting (rate-limiter.js in front of every route)                 *)
(***************************************************************************)
\* requests.filter(timestamp => timestamp > windowStart)
recentRequests(requests, windowStart) ==
    SelectSeq(requests, LAMBDA timestamp : timestamp > windowStart)

\* Faulty variant: the limit is compared with > instead of >=.
AtLimitLate(recent, max) == Len(recent) > max

\* recentRequests.length >= max
AtLimit(recent, max) == Len(recent) >= max

\* the middleware rateLimiter({max, windowMs}) returns, run for a request of
\* `ip`: it is synchronous, so one step. A refused request goes to the error
\* handler and leaves the Map as it was; an admitted one stores the filtered
\* timestamps with Date.now() appended and goes on to the routes.
rateLimiter(ip, max, windowMs) ==
    LET recent == recentRequests(rateLimitStore[ip], now - windowMs) IN
    /\ Quiet
    /\ IF AtLimit(recent, max)
       THEN /\ resp' = Failure("limiter", "limited",
                               AppError("Rate limit exceeded. Try again later.", 429,
                                        "RATE_LIMIT_EXCEEDED"))
            /\ UNCHANGED limiterVars
       ELSE /\ rateLimitStore' = [rateLimitStore EXCEPT ![ip] = Append(recent, now)]
            /\ admitted' = [admitted EXCEPT ![ip] = Append(@, now)]
            /\ resp' = NoResponse
    /\ UNCHANGED <<users, nextId, now, inflight, delivered, last, retired, survivors,
                   regInput, posts, likes, likeFlight, comments, nextDoc>>

\* Limiter: requests of two addresses reaching the limiter at every clock
\* reading, several within one reading
NextLimiter ==
    \/ \E ip \in Ips : rateLimiter(ip, MAX_REQUESTS, WINDOW_MS)
    \/ Tick(1)
    \/ Deliver

SpecLimiter == Init /\ [][NextLimiter]_vars

(***************************************************************************)
(* Posts and comments (post.routes.js, comment.routes.js and their         *)
(* services)                                                               *)
(***************************************************************************)
\* the answer of a route whose authenticate passed an error to next: the catch
\* branch has called res.clearCookie('accessToken'), the branch of the missing
\* cookie has not
Refused(op, token, denied) ==
    Sent(token, IF token = Undefined
                THEN Failure(op, "denied", denied)
                ELSE [Failure(op, "denied", denied)
                         EXCEPT !.cookies.accessToken = "removed"])

\* req.user as authenticate sets it from the decoded payload
ReqUser(token) == [id |-> token.id, username |-> token.username]

CommentNotFound == AppError("Comment with ID not found.", 404, "COMMENT_NOT_FOUND")
Forbidden(what) ==
    AppError("Forbidden: You do not own this " \o what \o ".", 403, "AUTHZ_FORBIDDEN")

\* PostService.updateCommentCount(postId, v): the services at hand do not
\* define it; taken to be updateCounter('Post', postId, 'commentCount', v)
updateCommentCount(docs, postId, v) == updateCounter(docs, postId, "commentCount", v)

\* POST /api/v1/posts: authenticate, then createPost -> Post.create with the
\* author taken from req.user
PostCreate(token, title, up) ==
    LET denied == authenticate(token, now) IN
    /\ Quiet
    /\ token \in CookieValues
    /\ IF denied # NoError
       THEN resp' = Refused("post_create", token, denied) /\ UNCHANGED <<posts, nextDoc>>
       ELSE IF ~up
       THEN /\ resp' = Sent(token, Failure("post_create", "create_down", StoreDown))
            /\ UNCHANGED <<posts, nextDoc>>
       ELSE /\ nextDoc < MaxDocs
            /\ nextDoc' = nextDoc + 1
            /\ posts' = posts @@ (NewIds[nextDoc + 1] :>
                            [title |-> title, author |-> ReqUser(token),
                             commentCount |-> 0, likeCount |-> 0])
            /\ resp' = Sent(token, Json("post_create", "done", 201))
    /\ UNCHANGED <<sessionVars, inflight, likes, likeFlight, comments>>

\* Faulty variant: the ownership check lets every authenticated user through.
OwnsAlways(doc, user) == TRUE

\* comment.author.id.toString() !== req.user.id.toString(), negated
Owns(doc, user) == doc.author.id = user.id

\* PUT and DELETE /api/v1/posts/:id up to the end of checkPostOwnership:
\* authenticate, then getPostById (404 when null) and the comparison of
\* post.author.id with req.user.id
checkPostOwnership(s, token, id, verb, title, up) ==
    LET denied == authenticate(token, now)
        op == "post_" \o verb
    IN
    /\ Quiet
    /\ FreeSlot(s)
    /\ token \in CookieValues
    /\ IF denied # NoError
       THEN resp' = Refused(op, token, denied) /\ UNCHANGED inflight
       ELSE IF ~up
       THEN resp' = Sent(token, Failure(op, "find_down", StoreDown)) /\ UNCHANGED inflight
       ELSE IF id \notin DOMAIN posts
       THEN resp' = Sent(token, Failure(op, "missing", PostNotFound)) /\ UNCHANGED inflight
       ELSE IF ~Owns(posts[id], ReqUser(token))
       THEN resp' = Sent(token, Failure(op, "not_owner", Forbidden("post"))) /\ UNCHANGED inflight
       ELSE /\ inflight' = [inflight EXCEPT ![s] =
                   [op |-> "post", req |-> [verb |-> verb, token |-> token,
                                            id |-> id, text |-> title]]]
            /\ resp' = NoResponse
    /\ UNCHANGED <<sessionVars, likeVars>>

\* the handler behind checkPostOwnership: updatePost -> findByIdAndUpdate($set)
\* or deletePost -> findByIdAndDelete, each 404 when the post is gone by then
PostWrite(s, up) ==
    LET req == inflight[s].req
        op == "post_" \o req.verb
    IN
    /\ Quiet
    /\ inflight[s].op = "post"
    /\ inflight' = [inflight EXCEPT ![s] = Idle]
    /\ IF ~up
       THEN resp' = Sent(req.token, Failure(op, "write_down", StoreDown)) /\ UNCHANGED posts
       ELSE IF req.id \notin DOMAIN posts
       THEN resp' = Sent(req.token, Failure(op, "gone", PostNotFound)) /\ UNCHANGED posts
       ELSE IF req.verb = "update"
       THEN /\ posts' = [posts EXCEPT ![req.id].title = req.text]
            /\ resp' = Sent(req.token, Json(op, "done", 200))
       ELSE /\ posts' = [r \in DOMAIN posts \ {req.id} |-> posts[r]]
            /\ resp' = Sent(req.token, Json(op, "done", 204))
    /\ UNCHANGED <<sessionVars, likes, likeFlight, comments, nextDoc>>

\* POST /api/v1/comments/post/:postId up to the end of Comment.create:
\* authenticate, validate, then the insert (the post is not looked up)
CommentCreate(s, token, postId, content, up) ==
    LET denied == authenticate(token, now) IN
    /\ Quiet
    /\ FreeSlot(s)
    /\ token \in CookieValues
    /\ IF denied # NoError
       THEN /\ resp' = Refused("comment_create", token, denied)
            /\ UNCHANGED <<inflight, comments, nextDoc>>
       ELSE IF ~up
       THEN /\ resp' = Sent(token, Failure("comment_create", "create_down", StoreDown))
            /\ UNCHANGED <<inflight, comments, nextDoc>>
       ELSE /\ nextDoc < MaxDocs
            /\ nextDoc' = nextDoc + 1
            /\ comments' = comments @@ (NewIds[nextDoc + 1] :>
                               [postId |-> postId, content |-> content,
                                author |-> ReqUser(token)])
            /\ inflight' = [inflight EXCEPT ![s] =
                   [op |-> "comment_count",
                    req |-> [verb |-> "create", token |-> token, id |-> postId,
                             text |-> content]]]
            /\ resp' = NoResponse
    /\ UNCHANGED <<sessionVars, posts, likes, likeFlight>>

\* the counter step of createComment (+1) and deleteComment (-1): a failure of
\* updateCommentCount is logged and swallowed, the route answers 201 or 204
CommentCount(s) ==
    LET req == inflight[s].req
        created == req.verb = "create"
    IN
    /\ Quiet
    /\ inflight[s].op = "comment_count"
    /\ inflight' = [inflight EXCEPT ![s] = Idle]
    /\ posts' = updateCommentCount(posts, req.id, IF created THEN 1 ELSE -1)
    /\ resp' = Sent(req.token, Json("comment_" \o req.verb, "done",
                                    IF created THEN 201 ELSE 204))
    /\ UNCHANGED <<sessionVars, likes, likeFlight, comments, nextDoc>>

\* PUT and DELETE /api/v1/comments/:commentId up to the end of
\* checkCommentOwnership: authenticate, validate, getCommentById, the 404 and
\* the comparison of comment.author.id with req.user.id
checkCommentOwnership(s, token, id, verb, content, up) ==
    LET denied == authenticate(token, now)
        op == "comment_" \o verb
    IN
    /\ Quiet
    /\ FreeSlot(s)
    /\ token \in CookieValues
    /\ IF denied # NoError
       THEN resp' = Refused(op, token, denied) /\ UNCHANGED inflight
       ELSE IF ~up
       THEN resp' = Sent(token, Failure(op, "find_down", StoreDown)) /\ UNCHANGED inflight
       ELSE IF id \notin DOMAIN comments
       THEN resp' = Sent(token, Failure(op, "missing", CommentNotFound)) /\ UNCHANGED inflight
       ELSE IF ~Owns(comments[id], ReqUser(token))
       THEN resp' = Sent(token, Failure(op, "not_owner", Forbidden("comment"))) /\ UNCHANGED inflight
       ELSE /\ inflight' = [inflight EXCEPT ![s] =
                   [op |-> "comment", req |-> [verb |-> verb, token |-> token,
                                               id |-> id, text |-> content]]]
            /\ resp' = NoResponse
    /\ UNCHANGED <<sessionVars, likeVars>>

\* the handler behind checkCommentOwnership: updateComment ->
\* findByIdAndUpdate($set), or deleteComment -> findByIdAndDelete and then the
\* counter step; each 404 when the comment is gone by then
CommentWrite(s, up) ==
    LET req == inflight[s].req
        op == "comment_" \o req.verb
    IN
    /\ Quiet
    /\ inflight[s].op = "comment"
    /\ IF ~up
       THEN /\ resp' = Sent(req.token, Failure(op, "write_down", StoreDown))
            /\ inflight' = [inflight EXCEPT ![s] = Idle]
            /\ UNCHANGED comments
       ELSE IF req.id \notin DOMAIN comments
       THEN /\ resp' = Sent(req.token, Failure(op, "gone", CommentNotFound))
            /\ inflight' = [inflight EXCEPT ![s] = Idle]
            /\ UNCHANGED comments
       ELSE IF req.verb = "update"
       THEN /\ comments' = [comments EXCEPT ![req.id].content = req.text]
            /\ resp' = Sent(req.token, Json(op, "done", 200))
            /\ inflight' = [inflight EXCEPT ![s] = Idle]
       ELSE /\ comments' = [r \in DOMAIN comments \ {req.id} |-> comments[r]]
            /\ inflight' = [inflight EXCEPT ![s] =
                   [op |-> "comment_count",
                    req |-> [req EXCEPT !.id = comments[req.id].postId]]]
            /\ resp' = NoResponse
    /\ UNCHANGED <<sessionVars, posts, likes, likeFlight, nextDoc>>

\* Posts: two accounts, their posts and comments behind authenticate and the
\* ownership checks
NextPosts ==
    \/ \E s \in Slots, b \in {Alice, Bob} :
          RegisterFind(s, b.username, b.email, b.password, TRUE)
    \/ \E s \in Slots, salt \in Salts : RegisterCreate(s, salt, TRUE)
    \/ \E t \in CookieValues : PostCreate(t, "t0", TRUE)
    \/ \E s \in Slots, t \in CookieValues, id \in DOMAIN posts \cup {MissingPost},
          verb \in {"update", "delete"} :
          checkPostOwnership(s, t, id, verb, "t1", TRUE)
    \/ \E s \in Slots, up \in BOOLEAN : PostWrite(s, up)
    \/ \E s \in Slots, t \in CookieValues, id \in DOMAIN posts :
          CommentCreate(s, t, id, "c0", TRUE)
    \/ \E s \in Slots : CommentCount(s)
    \/ \E s \in Slots, t \in CookieValues, id \in DOMAIN comments \cup {MissingPost},
          verb \in {"update", "delete"} :
          checkCommentOwnership(s, t, id, verb, "c1", TRUE)
    \/ \E s \in Slots, up \in BOOLEAN : CommentWrite(s, up)
    \/ Deliver

SpecPosts == Init /\ [][NextPosts]_vars

\* the body of a profile update that renames the account
Renamed == [username |-> "bob", email |-> ""]

\* Authors: one account that renames itself and writes, edits and
\* deletes posts, the store answering the profile update, at clock 0 and one
\* step later (the access tokens of clock 0 have expired by then)
NextAuthors ==
    \/ \E s \in Slots :
          /\ Registrations < MaxIncarnations
          /\ RegisterFind(s, Alice.username, Alice.email, Alice.password, TRUE)
    \/ \E s \in Slots, salt \in Salts : RegisterCreate(s, salt, TRUE)
    \/ \E s \in Slots, t \in CookieValues : ProfileFind(s, t, Renamed, TRUE)
    \/ \E s \in Slots : ProfileUpdate(s, TRUE)
    \/ \E s \in Slots : ProfileBulk(s, TRUE)
    \/ \E t \in CookieValues : PostCreate(t, "t0", TRUE)
    \/ \E s \in Slots, t \in CookieValues, id \in DOMAIN posts \cup {MissingPost},
          verb \in {"update", "delete"} :
          checkPostOwnership(s, t, id, verb, "t1", TRUE)
    \/ \E s \in Slots, up \in BOOLEAN : PostWrite(s, up)
    \/ now < ClockStep /\ Tick(ClockStep)
    \/ Deliver

SpecAuthors == Init /\ [][NextAuthors]_vars

\* a second account
\* Tenants: two accounts side by side, each with its sessions: rotation,
\* replay and logout of either one, the store answering
NextTenants ==
    \/ \E s \in Slots, b \in {Alice, Bob} :
          RegisterFind(s, b.username, b.email, b.password, TRUE)
    \/ \E s \in Slots, salt \in Salts : RegisterCreate(s, salt, TRUE)
    \/ \E s \in Slots, t \in CookieValues : RefreshLoad(s, t, TRUE)
    \/ \E s \in Slots : RefreshWipe(s, TRUE)
    \/ \E s \in Slots : RefreshSave(s, TRUE)
    \/ \E t \in CookieValues : Logout(t, TRUE)
    \/ Deliver

SpecTenants == Init /\ [][NextTenants]_vars

\* the profile body of the protected scenario: a new email
NewEmail == [username |-> "", email |-> "b@x.com"]

\* Protected: one account, its sessions and the routes behind authenticate, with
\* the store answering every read, at clock 0 and one step later (access tokens
\* of clock 0 have expired, refresh tokens have not)
NextProtected ==
    \/ \E s \in Slots :
          /\ Registrations < MaxIncarnations
          /\ RegisterFind(s, Alice.username, Alice.email, Alice.password, TRUE)
    \/ \E s \in Slots, salt \in Salts : RegisterCreate(s, salt, TRUE)
    \/ Login(Alice.email, Alice.password, TRUE)
    \/ \E s \in Slots, t \in CookieValues : RefreshLoad(s, t, TRUE)
    \/ \E s \in Slots, up \in BOOLEAN : RefreshWipe(s, up)
    \/ \E s \in Slots, up \in BOOLEAN : RefreshSave(s, up)
    \/ \E t \in CookieValues : Logout(t, TRUE)
    \/ \E s \in Slots, t \in CookieValues : ProfileFind(s, t, NewEmail, TRUE)
    \/ \E s \in Slots, up \in BOOLEAN : ProfileUpdate(s, up)
    \/ \E s \in Slots, t \in CookieValues, file, uploaded \in BOOLEAN :
          AvatarFind(s, t, file, uploaded, TRUE)
    \/ \E s \in Slots, up \in BOOLEAN : AvatarUpdate(s, up)
    \/ now < ClockStep /\ Tick(ClockStep)
    \/ Deliver

SpecProtected == Init /\ [][NextProtected]_vars

\* Accounts: every register, login and profile input, no rotation
NextAccounts ==
    \/ \E s \in Slots, b \in RegisterBodies, up \in BOOLEAN :
          RegisterFind(s, b.username, b.email, b.password, up)
    \/ \E s \in Slots, salt \in Salts, up \in BOOLEAN : RegisterCreate(s, salt, up)
    \/ \E e \in EmailInputs, pw \in PasswordInputs, up \in BOOLEAN : Login(e, pw, up)
    \/ \E s \in Slots, t \in CookieValues, b \in ProfileBodies, up \in BOOLEAN :
          ProfileFind(s, t, b, up)
    \/ \E s \in Slots, up \in BOOLEAN : ProfileUpdate(s, up)
    \/ \E s \in Slots, up \in BOOLEAN : ProfileBulk(s, up)
    \/ Deliver

SpecAccounts == Init /\ [][NextAccounts]_vars

(***************************************************************************)
(* Vocabulary of the properties                                            *)
(***************************************************************************)
\* the token's signature verifies under the refresh secret
Verifies(t) == jwtVerify(t, SecretRefresh, TRUE, now) = "ok"
\* ... and it has not expired at the current clock reading
Unexpired(t) == jwtVerify(t, SecretRefresh, FALSE, now) = "ok"

Blacklist(p) == users[p].blacklistedRefreshTokens

\* the step left the request in slot s on the rotation branch / the compromise branch
Rotates(s) == inflight'[s].op = "refresh" /\ inflight'[s].pc = "save"
Trips(s) == inflight'[s].op = "refresh" /\ inflight'[s].pc = "wipe"

\* the step answered 401 AUTH_COMPROMISED, cleared the cookies and sent no token
CompromisedAnswer ==
    /\ resp'.op = "refresh" /\ resp'.status = 401 /\ resp'.code = "AUTH_COMPROMISED"
    /\ resp'.cookies = BothCleared
    /\ resp'.accessToken = Undefined /\ resp'.refreshToken = Undefined

\* what a client sees of a response (path, thrown and sent are the model's labels,
\* not on the wire)
Observable(r) ==
    [status |-> r.status, code |-> r.code, message |-> r.message, cookies |-> r.cookies,
     accessToken |-> r.accessToken, refreshToken |-> r.refreshToken]

\* the step answered 200 with the pair minted for the request in slot s
RotationAnswer(s) ==
    /\ Observable(resp') = Observable(Success("refresh", 200, inflight[s].tokens))
    /\ resp'.refreshToken.secret = SecretRefresh /\ resp'.accessToken.secret = SecretAccess

(***************************************************************************)
(* Token rotation and replay                                               *)
(***************************************************************************)
\* C1: a refresh token R0 whose mint by Register or Login is the last request
\* completed for its principal P is rotated by a Refresh(R0) (the store up, R0
\* within its lifetime, P present): the request takes the rotation branch and is
\* answered 200 with a new pair.  A Refresh(R0) made when that rotation is the
\* last request completed for P takes the compromise branch and is answered
\* 401 AUTH_COMPROMISED with no tokens.
C1_RotatesOnceThenCompromised ==
    [][ /\ \A s \in Slots, t \in RefreshDelivered :
              (Unexpired(t) /\ t.id \in Present /\ RefreshLoad(s, t, TRUE)) =>
                  /\ (last[t.id] = Event("mint", t)) => Rotates(s)
                  /\ (last[t.id] = Event("refresh", t)) => Trips(s)
        /\ \A s \in Slots :
              /\ (RefreshSave(s, TRUE) /\ inflight[s].req.token.id \in Present)
                    => RotationAnswer(s)
              /\ RefreshWipe(s, TRUE) => CompromisedAnswer
      ]_vars

\* the second Refresh(R0) is on the compromise branch right after the first succeeded
C1_Witness ==
    \E s \in Slots :
        /\ inflight[s].op = "refresh" /\ inflight[s].pc = "wipe"
        /\ last[inflight[s].req.token.id] = Event("refresh", inflight[s].req.token)

\* C2: a Refresh that presents a token whose jti has been appended to a
\* blacklist before (by rotation or by logout) never succeeds.
C2_RetiredNeverRotates ==
    [][ \A s \in Slots :
            (RefreshSave(s, TRUE) /\ inflight[s].standing = "retired")
                => resp'.code # "success"
      ]_vars

\* C3: a Refresh with a correctly signed, unexpired token whose jti is in the
\* blacklist of its principal takes the compromise branch; when its write lands
\* the answer is 401 AUTH_COMPROMISED, no token is sent and the principal's
\* blacklist is empty.
C3_ReplayWipes ==
    [][ /\ \A s \in Slots, t \in RefreshDelivered :
              ( /\ Unexpired(t) /\ t.id \in Present
                /\ Includes(Blacklist(t.id), t.jti)
                /\ RefreshLoad(s, t, TRUE) )
                  => Trips(s) /\ resp' = NoResponse /\ delivered' = delivered
        /\ \A s \in Slots :
              RefreshWipe(s, TRUE) =>
                  /\ CompromisedAnswer
                  /\ delivered' = delivered
                  /\ \A p \in DOMAIN users' :
                        p = inflight[s].req.token.id
                            => users'[p].blacklistedRefreshTokens = <<>>
      ]_vars

\* a replay was answered AUTH_COMPROMISED and left an empty blacklist behind
C3_Witness ==
    /\ resp.op = "refresh" /\ resp.code = "AUTH_COMPROMISED"
    /\ retired # {}
    /\ \E p \in Present : Blacklist(p) = <<>>

C6_LogoutAlwaysSucceeds ==
    [][ \A t \in CookieValues, up \in BOOLEAN :
            (resp'.op = "logout" /\ Logout(t, up)) =>
                /\ resp'.status = 200 /\ resp'.code = "success"
                /\ resp'.cookies = BothCleared
                /\ ~Verifies(t) => users' = users
      ]_vars

\* a logout with the token of a deleted principal was answered 200
C6_Witness ==
    /\ resp.op = "logout" /\ resp.path = "no_user" /\ resp.status = 200
    /\ resp.code = "success"

(***************************************************************************)
(* Accounts                                                                *)
(***************************************************************************)
\* the failure a failed login shows
AuthFailedShape ==
    [status |-> 401, code |-> "AUTH_FAILED", message |-> "Invalid email or password.",
     cookies |-> NoCookies, accessToken |-> Undefined, refreshToken |-> Undefined]

\* C7: a Login with an email no principal has and a Login with a present email
\* and a wrong password are answered with the same 401 AUTH_FAILED, the same
\* message and no cookie, and change nothing in the store.
C7_LoginFailuresAlike ==
    [][ \A e \in EmailInputs, pw \in PasswordInputs :
            ( /\ resp'.op = "login"
              /\ \/ FindByEmail(users, e) = {}
                 \/ \E p \in FindByEmail(users, e) :
                        ~ComparePassword(pw, users[p].password)
              /\ Login(e, pw, TRUE) )
                => /\ Observable(resp') = AuthFailedShape
                   /\ users' = users
      ]_vars

\* a login with a present email and a wrong password was refused
C7_Witness ==
    /\ resp.op = "login" /\ resp.path = "wrong_password"
    /\ Observable(resp) = AuthFailedShape

\* C8: the digest stored by a successful Register differs from the plaintext,
\* and a Login with the email and password a present principal registered with
\* (its email not changed since) is answered success with a token pair of that
\* principal.
C8_RegisterThenLogin ==
    [][ /\ \A s \in Slots, salt \in Salts :
              (RegisterCreate(s, salt, TRUE) /\ resp'.code = "success")
                  => users'[nextId].password # inflight[s].req.password
        /\ \A e \in EmailInputs, pw \in PasswordInputs :
              \A p \in Present :
                  ( /\ regInput[p] = [email |-> e, password |-> pw]
                    /\ Login(e, pw, TRUE) )
                      => /\ resp'.status = 200 /\ resp'.code = "success"
                         /\ resp'.cookies = BothSet
                         /\ resp'.accessToken = SignAccess(p, users[p].username, now)
                         /\ resp'.refreshToken = SignRefresh(p, Jti(p, now), now)
                         /\ users[p].password # pw
      ]_vars

\* a principal that registered with a capitalised email has logged in
C8_Witness ==
    /\ resp.op = "login" /\ resp.code = "success"
    /\ \E p \in Present :
          /\ regInput[p].email = "A@x.com"
          /\ resp.refreshToken.id = p

\* C9: a Register whose lookup finds a principal with the same username or the
\* same email is answered 409 USER_EXISTS and creates nothing; every other
\* Register inserts one principal with an empty blacklist and is answered 201
\* with a pair minted for it.
C9_RegisterExistsOrCreates ==
    [][ /\ \A s \in Slots, b \in RegisterBodies :
              ( /\ FindByUsernameOrEmail(users, b.username, b.email) # {}
                /\ RegisterFind(s, b.username, b.email, b.password, TRUE) )
                  => /\ resp'.status = 409 /\ resp'.code = "USER_EXISTS"
                     /\ users' = users
        /\ \A s \in Slots, salt \in Salts :
              RegisterCreate(s, salt, TRUE) =>
                  /\ DOMAIN users' = DOMAIN users \cup {nextId}
                  /\ nextId \notin DOMAIN users
                  /\ users'[nextId].blacklistedRefreshTokens = <<>>
                  /\ resp'.status = 201
                  /\ resp'.refreshToken.id = nextId
      ]_vars

\* C10: no two principals have the same username, and no two the same email.
C10_IdentityAndEmailUnique ==
    \A p, q \in Present :
        p # q => /\ users[p].username # users[q].username
                 /\ users[p].email # users[q].email

\* two principals are stored and a conflicting write was turned down by an index
C10_Witness ==
    /\ Cardinality(Present) = 2
    /\ resp.path = "duplicate"

(***************************************************************************)
(* C11: every response of the refresh endpoint either sets both cookies   *)
(* to the pair minted for the token's principal and carries that pair, or *)
(* overwrites both with the cleared placeholder; the first happens only   *)
(* on full success, the second on every other outcome; a logout response  *)
(* always overwrites both.                                                *)
(***************************************************************************)
MintedPair(r) ==
    \E t \in 0..now :
        /\ r.refreshToken.id \in Present
        /\ [accessToken |-> r.accessToken, refreshToken |-> r.refreshToken]
              = generateAuthTokens(r.refreshToken.id,
                                   users[r.refreshToken.id].username, t)

C11_CookiesMoveTogether ==
    /\ resp.op = "refresh" =>
          \/ /\ resp.path = "done"
             /\ resp.cookies = BothSet
             /\ MintedPair(resp)
          \/ /\ resp.path # "done"
             /\ resp.status >= 400
             /\ resp.cookies = BothCleared
             /\ resp.accessToken = Undefined
             /\ resp.refreshToken = Undefined
    /\ resp.op = "logout" => resp.cookies = BothCleared

\* a refresh that failed after minting its pair (the save met a store that was
\* down) answers with both cookies cleared
C11_Witness ==
    /\ resp.op = "refresh"
    /\ resp.path = "save_down"
    /\ resp.cookies = BothCleared

(***************************************************************************)
(* C12 as stated: a Refresh with a badly signed or malformed token and a  *)
(* Refresh with a well signed, expired token are answered with different  *)
(* codes, so that the client can tell the two outcomes apart; neither     *)
(* writes to the store.                                                   *)
(***************************************************************************)
C12_InvalidAndExpiredDiffer ==
    [][ \A s \in Slots, bad, old \in CookieValues, up \in BOOLEAN :
            ( /\ bad # Undefined /\ old # Undefined
              /\ jwtVerify(bad, SecretRefresh, FALSE, now) = "JsonWebTokenError"
              /\ jwtVerify(old, SecretRefresh, FALSE, now) = "TokenExpiredError"
              /\ RefreshLoad(s, old, up) )
                => /\ users' = users
                   /\ resp'.status = 401
                   /\ resp'.code # RefreshFailure("verify",
                          JwtError(jwtVerify(bad, SecretRefresh, FALSE, now))).code
      ]_vars

(***************************************************************************)
(* C12 amended: refreshAuthTokens throws JsonWebTokenError for a badly    *)
(* signed or malformed token and the distinct TokenExpiredError for a     *)
(* well signed, expired one, so the route that calls it can tell them     *)
(* apart; the route answers both with the same 401 AUTH_REFRESH_FAILED    *)
(* and message and clears both cookies; neither writes to the store.      *)
(***************************************************************************)
RefreshFailedShape ==
    [status |-> 401, code |-> "AUTH_REFRESH_FAILED",
     message |-> "Invalid or expired refresh token. Please log in.",
     cookies |-> BothCleared, accessToken |-> Undefined, refreshToken |-> Undefined]

C12_KindsDifferAnswerAlike ==
    [][ \A s \in Slots, token \in CookieValues, up \in BOOLEAN :
            ( /\ token # Undefined
              /\ jwtVerify(token, SecretRefresh, FALSE, now) # "ok"
              /\ resp'.op = "refresh"
              /\ RefreshLoad(s, token, up) )
                => /\ users' = users
                   /\ inflight' = inflight
                   /\ resp'.thrown =
                         IF token.secret = SecretRefresh /\ now >= token.exp
                         THEN "TokenExpiredError" ELSE "JsonWebTokenError"
                   /\ Observable(resp') = RefreshFailedShape
      ]_vars

\* an expired refresh token was refused
C12_Witness ==
    /\ resp.op = "refresh"
    /\ resp.thrown = "TokenExpiredError"
    /\ resp.code = "AUTH_REFRESH_FAILED"

(***************************************************************************)
(* C13: a Refresh with a correctly signed, unexpired refresh token whose  *)
(* principalId matches no stored principal (the store answering) fails    *)
(* with 401 AUTH_INVALID_TOKEN, carries no tokens, starts no rotation and *)
(* leaves the store as it was.                                            *)
(***************************************************************************)
C13_UnknownPrincipalInvalidToken ==
    [][ \A s \in Slots, token \in CookieValues :
            ( /\ token # Undefined
              /\ jwtVerify(token, SecretRefresh, FALSE, now) = "ok"
              /\ token.id \notin Present
              /\ resp'.op = "refresh"
              /\ RefreshLoad(s, token, TRUE) )
                => /\ resp'.status = 401
                   /\ resp'.code = "AUTH_INVALID_TOKEN"
                   /\ resp'.message = "Invalid refresh token payload."
                   /\ resp'.accessToken = Undefined
                   /\ resp'.refreshToken = Undefined
                   /\ resp'.cookies = BothCleared
                   /\ users' = users
                   /\ inflight' = inflight
                   /\ retired' = retired
      ]_vars

\* a refresh token of a deleted principal was presented and refused
C13_Witness ==
    /\ resp.op = "refresh"
    /\ resp.path = "no_user"
    /\ \E t \in RefreshDelivered : t.id \notin Present /\ Unexpired(t)

(***************************************************************************)
(* C14: of two concurrent Refresh calls that present the same un-retired  *)
(* refresh token and both read the principal before either append is     *)
(* persisted, the second to save succeeds as well: it is answered 200     *)
(* with the pair it minted and its append lands next to the first one.    *)
(* The witness is the interleaving of the claim: both calls succeeded,    *)
(* two distinct new refresh tokens are outstanding and each has passed    *)
(* the checks of a later Refresh.                                         *)
(***************************************************************************)
C14_SecondSaveSucceeds ==
    [][ \A s \in Slots :
            ( /\ inflight[s].op = "refresh"
              /\ inflight[s].pc = "save"
              /\ inflight[s].req.token.id \in Present
              /\ Includes(Blacklist(inflight[s].req.token.id), inflight[s].req.token.jti)
              /\ resp'.op = "refresh"
              /\ RefreshSave(s, TRUE) )
                => /\ resp'.path = "done"
                   /\ resp'.status = 200
                   /\ resp'.cookies = BothSet
                   /\ resp'.refreshToken = inflight[s].tokens.refreshToken
                   /\ users'[inflight[s].req.token.id].blacklistedRefreshTokens
                        = Append(Blacklist(inflight[s].req.token.id),
                                 inflight[s].req.token.jti)
      ]_vars

\* only r0 was ever rotated, twice and with no wipe in between, and the two
\* distinct tokens minted from it are each in a later rotation
C14_Witness ==
    \E r0, a, b \in RefreshDelivered :
        /\ r0.id \in Present /\ a.id = r0.id /\ b.id = r0.id
        /\ a # b /\ a # r0 /\ b # r0
        /\ retired = {r0.jti}
        /\ Blacklist(r0.id) = <<r0.jti, r0.jti>>
        /\ inflight[1].op = "refresh" /\ inflight[1].pc = "save"
        /\ inflight[2].op = "refresh" /\ inflight[2].pc = "save"
        /\ {inflight[1].req.token, inflight[2].req.token} = {a, b}

(***************************************************************************)
(* C15: when a token T has been rotated, no other token of the principal  *)
(* has, and nothing was wiped (only Refresh(T) calls were made, one after *)
(* the other or two at a time), every further Refresh(T) that is loaded   *)
(* while T is unexpired trips the compromise check, and its wipe step is  *)
(* answered AUTH_COMPROMISED. So of two concurrent Refresh(T) either the  *)
(* one that loads after the other's save is refused, or both succeed and  *)
(* the third use is refused.                                              *)
(***************************************************************************)
C15_ReplayCaughtByThirdUse ==
    [][ /\ \A s \in Slots, T \in RefreshDelivered :
              ( /\ Unexpired(T)
                /\ T.id \in Present
                /\ retired = {T.jti}
                /\ survivors = {}
                /\ resp'.op = "none"
                /\ RefreshLoad(s, T, TRUE) )
                  => Trips(s)
        /\ \A s \in Slots :
              ( /\ inflight[s].op = "refresh"
                /\ inflight[s].pc = "wipe"
                /\ resp'.op = "refresh"
                /\ RefreshWipe(s, TRUE) )
                  => CompromisedAnswer
      ]_vars

\* both concurrent calls succeeded and the third use of T has tripped the check
C15_Witness ==
    \E T \in RefreshDelivered, s \in Slots :
        /\ retired = {T.jti}
        /\ survivors = {}
        /\ Blacklist(T.id) = <<T.jti, T.jti>>
        /\ inflight[s].op = "refresh"
        /\ inflight[s].pc = "wipe"
        /\ inflight[s].req.token = T

(***************************************************************************)
(* C16: across every step of Register, Login, Refresh, Logout, the        *)
(* profile update and the avatar update, the blacklist of a stored        *)
(* principal after the step extends the blacklist before it (so its       *)
(* entries are a superset), except for the step that empties it and is    *)
(* answered AUTH_COMPROMISED.                                             *)
(***************************************************************************)
IsPrefix(a, b) == Len(a) <= Len(b) /\ SubSeq(b, 1, Len(a)) = a

C16_BlacklistOnlyGrows ==
    [][ \A p \in Present :
            /\ p \in DOMAIN users'
            /\ \/ /\ IsPrefix(Blacklist(p), users'[p].blacklistedRefreshTokens)
                  /\ Range(Blacklist(p)) \subseteq Range(users'[p].blacklistedRefreshTokens)
               \/ /\ users'[p].blacklistedRefreshTokens = <<>>
                  /\ CompromisedAnswer
      ]_vars

\* a blacklist that held an entry has just been wiped by the compromise branch,
\* for a principal whose avatar and email have been updated
C16_Witness ==
    /\ resp.code = "AUTH_COMPROMISED"
    /\ \E p \in Present :
          /\ Blacklist(p) = <<>>
          /\ users[p].avatar = UploadedAvatar
          /\ users[p].email = NewEmail.email
          /\ \E j \in retired : j[1] = p

(***************************************************************************)
(* C17: in every reachable state no jti appears twice in the blacklist of *)
(* a stored principal.                                                    *)
(***************************************************************************)
C17_BlacklistHasNoDuplicates ==
    \A p \in Present :
        \A i, k \in 1..Len(Blacklist(p)) :
            Blacklist(p)[i] = Blacklist(p)[k] => i = k

(***************************************************************************)
(* C18: every mint (a Register, Login or Refresh answered with a pair)    *)
(* produces a refresh token whose jti differs from the jti of every       *)
(* refresh token handed out before, whether or not the clock has moved.   *)
(***************************************************************************)
C18_MintedJtisAreDistinct ==
    [][ (resp.op = "none" /\ resp'.cookies = BothSet)
            => \A t \in RefreshDelivered : t.jti # resp'.refreshToken.jti
      ]_vars

(***************************************************************************)
(* C19: on the routes behind authenticate (PUT /profile, PUT /avatar) a   *)
(* request is let through exactly when its accessToken cookie is signed   *)
(* with the access secret and unexpired, whatever the blacklist holds: an *)
(* unexpired access token is let through after the refresh token minted   *)
(* with it was logged out or rotated and after a compromise wipe.         *)
(***************************************************************************)
\* signed with the access secret and not yet expired
AccessValid(token) == token.secret = SecretAccess /\ now < token.exp

\* the jti of the refresh token that was minted together with an access token
Sibling(token) == Jti(token.id, token.exp - AccessExpiry)

C19_AuthenticateIgnoresBlacklist ==
    [][ \A s \in Slots, token \in CookieValues :
            /\ ( /\ (resp'.op = "profile" \/ inflight'[s].op = "profile")
                 /\ ProfileFind(s, token, NewEmail, TRUE) )
                   => (resp'.path = "denied" <=> ~AccessValid(token))
            /\ \A file, uploaded \in BOOLEAN :
                 ( /\ (resp'.op = "avatar" \/ inflight'[s].op = "avatar")
                   /\ AvatarFind(s, token, file, uploaded, TRUE) )
                     => (resp'.path = "denied" <=> ~AccessValid(token))
      ]_vars

\* a request got past authenticate (it was answered by the avatar handler) when
\* the session of every access token that is valid now had been revoked
C19_Witness ==
    /\ resp.op = "avatar"
    /\ resp.path = "no_file"
    /\ \A a \in delivered :
          AccessValid(a) => /\ a.id \in Present
                            /\ Sibling(a) \in Range(Blacklist(a.id))

(***************************************************************************)
(* C20: a token signed as an access token, presented as the refreshToken  *)
(* cookie, is refused by Refresh as invalid (JsonWebTokenError, 401) with *)
(* no rotation started and the store unchanged, and makes Logout append   *)
(* nothing; a token signed as a refresh token, presented as the           *)
(* accessToken cookie, is refused by authenticate with 401 AUTH_FAILED    *)
(* and the protected handler does not run.                                *)
(***************************************************************************)
C20_TokenKindsDoNotCross ==
    [][ \A s \in Slots, token \in CookieValues :
            /\ ( /\ token.secret = SecretAccess
                 /\ resp'.op = "refresh"
                 /\ RefreshLoad(s, token, TRUE) )
                   => /\ resp'.thrown = "JsonWebTokenError"
                      /\ resp'.status = 401
                      /\ resp'.cookies = BothCleared
                      /\ users' = users
                      /\ inflight' = inflight
            /\ ( /\ token.secret = SecretAccess
                 /\ resp'.op = "logout"
                 /\ Logout(token, TRUE) )
                   => users' = users /\ retired' = retired
            /\ ( /\ token.secret = SecretRefresh
                 /\ resp'.op = "profile"
                 /\ ProfileFind(s, token, NewEmail, TRUE) )
                   => /\ resp'.path = "denied"
                      /\ resp'.status = 401
                      /\ resp'.code = "AUTH_FAILED"
                      /\ users' = users
                      /\ inflight' = inflight
            /\ ( /\ token.secret = SecretRefresh
                 /\ resp'.op = "avatar"
                 /\ AvatarFind(s, token, TRUE, TRUE, TRUE) )
                   => /\ resp'.path = "denied"
                      /\ resp'.status = 401
                      /\ resp'.code = "AUTH_FAILED"
                      /\ users' = users
                      /\ inflight' = inflight
      ]_vars

\* an unexpired access token of a stored principal was sent as the refresh
\* cookie and refused
C20_Witness ==
    /\ resp.op = "refresh"
    /\ resp.sent = SecretAccess
    /\ resp.thrown = "JsonWebTokenError"
    /\ \E a \in delivered : AccessValid(a) /\ a.id \in Present

(***************************************************************************)
(* C21: a Login that succeeds is answered 200 with both cookies set to    *)
(* the pair minted for the principal at the current clock reading, and    *)
(* changes nothing in the store: every principal record, the blacklist of *)
(* the logging-in principal included, is the same after the step, and     *)
(* every refresh token handed out before is blacklisted after the step    *)
(* exactly if it was before.                                              *)
(***************************************************************************)
C21_LoginWritesNothing ==
    [][ \A p \in Present :
            ( /\ resp'.op = "login"
              /\ resp'.path = "done"
              /\ FindByEmail(users, Alice.email) = {p}
              /\ Login(Alice.email, Alice.password, TRUE) )
                => /\ resp'.status = 200
                   /\ resp'.cookies = BothSet
                   /\ resp'.accessToken = SignAccess(p, users[p].username, now)
                   /\ resp'.refreshToken = SignRefresh(p, Jti(p, now), now)
                   /\ users' = users
                   /\ delivered' = delivered
                   /\ \A t \in RefreshDelivered :
                         t.id \in Present =>
                            ( Includes(users'[t.id].blacklistedRefreshTokens, t.jti)
                              <=> Includes(Blacklist(t.id), t.jti) )
      ]_vars

\* a login has succeeded for a principal whose blacklist holds an entry while
\* another refresh token of the principal is out and not blacklisted
C21_Witness ==
    /\ resp.op = "login"
    /\ resp.path = "done"
    /\ \E p \in Present :
          /\ Blacklist(p) # <<>>
          /\ \E t \in RefreshDelivered :
                t.id = p /\ Unexpired(t) /\ ~Includes(Blacklist(p), t.jti)


\* the steps of Register, Login and Refresh that end in an unexpected failure:
\* the store unreachable or gone from under a save, the signing secret or the
\* verification secret missing
UnexpectedPaths ==
    {"find_down", "create_down", "down", "wipe_down", "save_down", "save_gone",
     "sign", "verify_key"}

\* the operational kinds with the status and code each is answered with
OperationalAnswers ==
    {[op |-> "register", path |-> "exists", status |-> 409, code |-> "USER_EXISTS"],
     [op |-> "login", path |-> "no_user", status |-> 401, code |-> "AUTH_FAILED"],
     [op |-> "login", path |-> "wrong_password", status |-> 401, code |-> "AUTH_FAILED"],
     [op |-> "refresh", path |-> "no_cookie", status |-> 401, code |-> "AUTH_NO_TOKEN"],
     [op |-> "refresh", path |-> "verify", status |-> 401, code |-> "AUTH_REFRESH_FAILED"],
     [op |-> "refresh", path |-> "no_user", status |-> 401, code |-> "AUTH_INVALID_TOKEN"],
     [op |-> "refresh", path |-> "compromised", status |-> 401, code |-> "AUTH_COMPROMISED"]}

\* C22: an unexpected failure of Register, Login or Refresh (store unreachable,
\* signing or verification secret missing) is answered 500 INTERNAL_SERVER_ERROR
\* and never with the status and code of an operational kind, while every
\* operational failure is answered with its own status and code.
C22_UnexpectedIsInternal ==
    resp.op \in {"register", "login", "refresh"} =>
        /\ resp.path \in UnexpectedPaths =>
               /\ resp.status = 500
               /\ resp.code = "INTERNAL_SERVER_ERROR"
        /\ \A a \in OperationalAnswers :
               (resp.op = a.op /\ resp.path = a.path) =>
                   (resp.status = a.status /\ resp.code = a.code)


\* C23: a Register request whose body fails input validation (a weak or missing
\* password, a short username, a string that is no email) is answered 400
\* INPUT_VALIDATION_FAILED before the Session Manager runs, whether or not the
\* store can be reached: no principal is created, no request is taken up, no
\* token is minted and no cookie is set.
C23_InvalidBodyRejectedFirst ==
    [][ \A s \in Slots, body \in RegisterInputs, up \in BOOLEAN :
            ( /\ \/ body.password = Missing
                 \/ LET c == Characters(body.password[1]) IN
                       \/ Len(c) < 8
                       \/ \A i \in 1..Len(c) : c[i] \notin LowerCase
                       \/ \A i \in 1..Len(c) : c[i] \notin UpperCase
                       \/ \A i \in 1..Len(c) : c[i] \notin Digits
                 \/ body.username = "al"
                 \/ body.email = "a.x.com"
              /\ RegisterValidated(s, body, up) )
                => /\ resp'.op = "register"
                   /\ resp'.status = 400
                   /\ resp'.code = "INPUT_VALIDATION_FAILED"
                   /\ resp'.cookies = NoCookies
                   /\ resp'.accessToken = Undefined
                   /\ resp'.refreshToken = Undefined
                   /\ users' = users
                   /\ nextId' = nextId
                   /\ inflight' = inflight
                   /\ last' = last
      ]_vars

C23_Witness ==
    /\ resp.op = "register"
    /\ resp.path = "invalid"
    /\ resp.status = 400
    /\ Present # {}


\* C24: every successful Register, Login and Refresh response sets both the
\* accessToken and the refreshToken cookie, each HttpOnly, and the body of a
\* successful Register or Login carries the principal's id, username and email
\* and no other field of its record (no password digest).
C24_SuccessSetsHttpOnlyPair ==
    (resp.op \in {"register", "login", "refresh"} /\ resp.code = "success") =>
        /\ resp.cookies = BothSet
        /\ resp.httpOnly = {"accessToken", "refreshToken"}
        /\ resp.accessToken.secret = SecretAccess
        /\ resp.refreshToken.secret = SecretRefresh
        /\ resp.op \in {"register", "login"} =>
              /\ DOMAIN resp.user = {"id", "username", "email"}
              /\ resp.user.id = resp.refreshToken.id
              /\ resp.user.id \in Present
              /\ resp.user.username = users[resp.user.id].username
              /\ resp.user.email = users[resp.user.id].email
              /\ "password" \notin DOMAIN resp.user

\* a login answered with success for an account that holds a digest
C24_Witness ==
    /\ resp.op = "login"
    /\ resp.code = "success"
    /\ resp.user.id \in Present
    /\ Len(users[resp.user.id].password) = 3


\* C25: when the only token-bearing requests for principal P are one mint and
\* then Refresh calls one at a time, each presenting the refresh token of the
\* previous success, every such Refresh (of an unexpired token, the store
\* answering) takes the rotation branch and succeeds, and after each of them
\* the newest token is the only token of the lineage whose tokenId is absent
\* from P's revocation set: all earlier ones are in it.
C25_SingleLineage ==
    [][ \A s \in Slots :
          /\ ( /\ Unexpired(Latest)
               /\ Latest.id \in Present
               /\ RefreshLoad(s, Latest, TRUE) ) => Rotates(s)
          /\ ( /\ inflight[s].op = "refresh"
               /\ RefreshSave(s, TRUE) )
                 => /\ resp'.code = "success"
                    /\ ~Includes(users'[resp'.refreshToken.id].blacklistedRefreshTokens,
                                 resp'.refreshToken.jti)
                    /\ \A t \in RefreshDelivered :
                          t # resp'.refreshToken
                             => Includes(users'[t.id].blacklistedRefreshTokens, t.jti)
      ]_vars


\* the Like records stored for a resource
LikesOn(r) == {l \in likes : l.resourceId = r}

C28_PersistBeforeReturn ==
    [][ \A s \in Slots :
          /\ \A t \in CookieValues, up \in BOOLEAN :
                ( /\ inflight[s] = Idle
                  /\ inflight'[s].op = "refresh"
                  /\ RefreshLoad(s, t, up) )
                    => resp' = NoResponse /\ users' = users
          /\ \A up \in BOOLEAN :
                ( /\ inflight[s].op = "refresh"
                  /\ inflight'[s] = Idle
                  /\ resp'.op = "refresh"
                  /\ RefreshSave(s, up) )
                    => LET old == inflight[s].req.token IN
                       IF resp'.code = "success"
                       THEN /\ up
                            /\ MintedPair(resp')
                            /\ resp'.refreshToken = inflight[s].tokens.refreshToken
                            /\ Includes(users'[old.id].blacklistedRefreshTokens, old.jti)
                       ELSE /\ (~up \/ old.id \notin Present)
                            /\ resp'.status = 500
                            /\ resp'.cookies = BothCleared
                            /\ resp'.accessToken = Undefined
                            /\ resp'.refreshToken = Undefined
                            /\ users' = users
      ]_vars

\* a rotation whose save failed: the minted pair was dropped
C28_Witness ==
    /\ resp.op = "refresh"
    /\ resp.path = "save_down"
    /\ resp.cookies = BothCleared
    /\ resp.refreshToken = Undefined


\* the codes of the operational failures that are refusals: PrincipalExists,
\* AuthFailed, InvalidToken and Expired (a missing cookie included)
RefusalCodes ==
    {"USER_EXISTS", "AUTH_FAILED", "AUTH_REFRESH_FAILED", "AUTH_INVALID_TOKEN",
     "AUTH_NO_TOKEN"}

C30_OnlyOwnRecordChanges ==
    [][ /\ \A t \in CookieValues :
              (resp'.op = "logout" /\ Logout(t, TRUE))
                  => /\ DOMAIN users' = DOMAIN users
                     /\ \A q \in Present \ {t.id} : users'[q] = users[q]
        /\ \A s \in Slots :
              ( /\ inflight[s].op = "refresh"
                /\ resp'.op = "refresh"
                /\ (RefreshWipe(s, TRUE) \/ RefreshSave(s, TRUE)) )
                  => /\ DOMAIN users' = DOMAIN users
                     /\ \A q \in Present \ {inflight[s].req.token.id} :
                           users'[q] = users[q]
        /\ \A s \in Slots, t \in CookieValues :
              (inflight[s] = Idle /\ RefreshLoad(s, t, TRUE)) => users' = users
      ]_vars

\* a compromise wipe of one principal's list has just run while another
\* principal's list is not empty
C30_Witness ==
    /\ resp.op = "refresh"
    /\ resp.path = "compromised"
    /\ \E p, q \in Present :
          /\ p # q
          /\ Blacklist(p) = <<>>
          /\ Blacklist(q) # <<>>

(***************************************************************************)
(* C31. On a protected route authenticate answers a missing accessToken    *)
(* cookie with 401 AUTH_REQUIRED, a badly signed one with 401 AUTH_FAILED  *)
(* and an expired one with 401 AUTH_TOKEN_EXPIRED; in the three cases the  *)
(* handler does not run: no request is suspended in it and no user, post   *)
(* or comment changes.                                                     *)
(***************************************************************************)
C31_AuthenticateRefuses ==
    [][ \A s \in Slots, token \in CookieValues :
          LET verdict == jwtVerify(token, SecretAccess, FALSE, now)
              refusal == IF token = Undefined THEN "AUTH_REQUIRED"
                         ELSE IF verdict = "JsonWebTokenError" THEN "AUTH_FAILED"
                         ELSE IF verdict = "TokenExpiredError" THEN "AUTH_TOKEN_EXPIRED"
                         ELSE "none"
              refused == /\ resp'.status = 401
                         /\ resp'.code = refusal
                         /\ inflight' = inflight
                         /\ users' = users
                         /\ posts' = posts
                         /\ comments' = comments
          IN
          /\ ( /\ refusal # "none"
               /\ resp'.op = "post_create"
               /\ PostCreate(token, "t0", TRUE) ) => refused
          /\ \A id \in DOMAIN posts \cup {MissingPost}, verb \in {"update", "delete"} :
               ( /\ refusal # "none"
                 /\ resp'.op = "post_" \o verb
                 /\ checkPostOwnership(s, token, id, verb, "t1", TRUE) ) => refused
          /\ ( /\ refusal # "none"
               /\ resp'.op = "profile"
               /\ ProfileFind(s, token, Renamed, TRUE) ) => refused
          /\ ( /\ refusal = "none"
               /\ resp'.op = "post_create"
               /\ PostCreate(token, "t0", TRUE) ) => resp'.status = 201
      ]_vars

\* an expired access token was refused on the route that creates posts, after
\* the same account had created a post
C31_Witness ==
    /\ resp.op = "post_create"
    /\ resp.code = "AUTH_TOKEN_EXPIRED"
    /\ resp.status = 401
    /\ resp.sent = SecretAccess
    /\ \E r \in DOMAIN posts : posts[r].author.id \in Present

(***************************************************************************)
(* C32. Of two concurrent Register calls for the same username or the same *)
(* email one creates the principal; the other, whose insert comes second,  *)
(* is answered like the sequential case, 409 USER_EXISTS, creates nothing  *)
(* and carries no tokens.                                                  *)
(***************************************************************************)
C32_RaceLoserGetsUserExists ==
    [][ \A s \in Slots, salt \in Salts :
          ( /\ inflight[s].op = "register"
            /\ FindByUsernameOrEmail(users, inflight[s].req.username,
                                     inflight[s].req.email) # {}
            /\ resp'.op = "register"
            /\ RegisterCreate(s, salt, TRUE) )
              => /\ users' = users
                 /\ resp'.cookies = NoCookies
                 /\ resp'.accessToken = Undefined /\ resp'.refreshToken = Undefined
                 /\ resp'.status = 409
                 /\ resp'.code = "USER_EXISTS"
      ]_vars

(***************************************************************************)
(* C33. For every address and every instant t, at most max admitted        *)
(* requests of the address have a timestamp in the window of windowMs      *)
(* readings that ends at t (after t - windowMs, up to t); a request that   *)
(* arrives when max admitted requests lie in the window ending now is      *)
(* answered 429 RATE_LIMIT_EXCEEDED and is not recorded; no request        *)
(* changes what is held for another address.                               *)
(***************************************************************************)
C33_WindowNeverExceedsMax ==
    [][ LET Inside(history, ip, t) ==
                Cardinality({i \in DOMAIN history[ip] :
                                /\ history[ip][i] > t - WINDOW_MS
                                /\ history[ip][i] <= t})
        IN
        /\ \A ip \in Ips, t \in 0..MaxClock : Inside(admitted', ip, t) <= MAX_REQUESTS
        /\ \A ip \in Ips :
             rateLimiter(ip, MAX_REQUESTS, WINDOW_MS) =>
                /\ Inside(admitted, ip, now) >= MAX_REQUESTS
                      => /\ resp'.status = 429
                         /\ resp'.code = "RATE_LIMIT_EXCEEDED"
                         /\ rateLimitStore' = rateLimitStore
                         /\ admitted' = admitted
                /\ Inside(admitted, ip, now) < MAX_REQUESTS
                      => /\ resp' = NoResponse
                         /\ admitted'[ip] = Append(admitted[ip], now)
                /\ \A other \in Ips \ {ip} :
                      /\ rateLimitStore'[other] = rateLimitStore[other]
                      /\ admitted'[other] = admitted[other]
      ]_vars

\* an address was refused with its window full, after more than max of its
\* requests had been admitted over time, while the other address had requests
\* of its own in the window
C33_Witness ==
    /\ resp.code = "RATE_LIMIT_EXCEEDED"
    /\ resp.status = 429
    /\ \E ip \in Ips :
          /\ Len(admitted[ip]) > MAX_REQUESTS
          /\ Len(recentRequests(rateLimitStore[ip], now - WINDOW_MS)) = MAX_REQUESTS
          /\ \E other \in Ips \ {ip} :
                /\ admitted[other] # <<>>
                /\ Len(recentRequests(rateLimitStore[other], now - WINDOW_MS)) < MAX_REQUESTS

C35_LikeCountNeverNegative ==
    \A r \in DOMAIN posts : posts[r].likeCount >= 0

(***************************************************************************)
(* C36. The title of a post or the content of a comment changes, or the    *)
(* post or comment is deleted, only in the handler of a request whose      *)
(* authenticated user id equals the author.id of the resource. A PUT or    *)
(* DELETE of another authenticated user is answered 403 AUTHZ_FORBIDDEN,   *)
(* one that names a missing resource 404, and both leave every post and    *)
(* comment, their counters included, as they were.                         *)
(***************************************************************************)
C36_OnlyTheAuthorWrites ==
    [][ /\ \A r \in DOMAIN posts :
             (r \notin DOMAIN posts' \/ posts'[r].title # posts[r].title)
                => \E s \in Slots :
                      /\ inflight[s].op = "post" /\ inflight'[s] = Idle
                      /\ inflight[s].req.id = r
                      /\ inflight[s].req.token.id = posts[r].author.id
        /\ \A r \in DOMAIN comments :
             (r \notin DOMAIN comments' \/ comments'[r].content # comments[r].content)
                => \E s \in Slots :
                      /\ inflight[s].op = "comment" /\ inflight'[s].op # "comment"
                      /\ inflight[s].req.id = r
                      /\ inflight[s].req.token.id = comments[r].author.id
        /\ \A s \in Slots, token \in CookieValues, verb \in {"update", "delete"} :
             LET untouched == /\ posts' = posts /\ comments' = comments
                              /\ inflight' = inflight
                 forbidden == /\ resp'.status = 403 /\ resp'.code = "AUTHZ_FORBIDDEN"
                              /\ untouched
                 missing == resp'.status = 404 /\ untouched
             IN
             /\ \A id \in DOMAIN posts \cup {MissingPost} :
                  ( /\ authenticate(token, now) = NoError
                    /\ resp'.op = "post_" \o verb
                    /\ checkPostOwnership(s, token, id, verb, "t1", TRUE) )
                      => /\ id \notin DOMAIN posts => missing
                         /\ (id \in DOMAIN posts /\ posts[id].author.id # token.id)
                               => forbidden
             /\ \A id \in DOMAIN comments \cup {MissingPost} :
                  ( /\ authenticate(token, now) = NoError
                    /\ resp'.op = "comment_" \o verb
                    /\ checkCommentOwnership(s, token, id, verb, "c1", TRUE) )
                      => /\ id \notin DOMAIN comments => missing
                         /\ (id \in DOMAIN comments /\ comments[id].author.id # token.id)
                               => forbidden
      ]_vars

\* a user was refused 403 on a comment of the other user, while a post stands
\* edited by its author
C36_Witness ==
    /\ resp.op \in {"comment_update", "comment_delete"}
    /\ resp.status = 403 /\ resp.code = "AUTHZ_FORBIDDEN"
    /\ \E r \in DOMAIN comments : comments[r].author.id \in Present
    /\ \E r \in DOMAIN posts :
          posts[r].title = "t1" /\ posts[r].author.id \in Present

(***************************************************************************)
(* C37. Whenever no profile update of a user is in flight (each one sent   *)
(* has completed, its bulk update included), every post whose author.id is *)
(* the user carries the user's current username as author.username; this   *)
(* includes the posts created after a rename by requests that authenticate *)
(* with an access token issued before it.                                  *)
(***************************************************************************)
C37_PostsCarryCurrentUsername ==
    \A p \in Present :
        (\A s \in Slots : inflight[s].op \in {"profile", "profile_bulk"}
                              => inflight[s].req.token.id # p)
           => \A r \in DOMAIN posts :
                 posts[r].author.id = p => posts[r].author.username = users[p].username

====
